---- MODULE Spec2Model ----
(***************************************************************************)
(* The dialog engine of the pipecat voice agent: the per-call session, the *)
(* deterministic state machine (state_machine.py), the keyword validators  *)
(* (validation.py) and the frame processor that drives them                *)
(* (processor.py).                                                         *)
(*                                                                         *)
(* Text is a sequence of tokens.  A token is a record [word, digits]: a    *)
(* run of letters is a word token (lower-cased, digits = <<>>), a run of   *)
(* decimal digits is a number token (word = "").  Keywords are sequences   *)
(* of words; the empty string is the empty sequence.                       *)
(***************************************************************************)
EXTENDS Integers, Sequences, FiniteSets, TLC

\* ------------------------------------------------------------------ bounds
\* Cap on session.turn_count: no transcription is delivered beyond it.
MaxTurns == 10
\* The same cap on a long call (it must exceed MAX_TURNS_PER_CALL).
MaxLongTurns == 32
\* Cap on the number of fragments the debounce buffer collects.
MaxBufferFragments == 2
\* Cap on the background extraction tasks in flight.
MaxExtractionTasks == 1
\* Cap on the delayed-end tasks in flight.
MaxEndTasks == 1
\* The clock of the breaker runs from 1 to MaxClock.
MaxClock == 6
\* Failures recorded in a row on one breaker.
MaxStreak == 4
\* The clock of the backend client runs from 1 to MaxBackendClock in steps of
\* BackendPace seconds.
MaxBackendClock == 81
BackendPace == 20
\* Backend calls in a row that fail.
MaxBackendStreak == 4
\* Events of the primary synthesizer and of the fallback for one utterance,
\* the end of the generator being one.
MaxPrimaryEvents == 4
MaxFallbackEvents == 3
\* The clock of the TTS service runs from 1 to MaxTTSClock; primary failures in
\* a row on its breaker.
MaxTTSClock == 4
MaxTTSStreak == 3

\* The user turns of a call that is followed to its post-call pipeline.
MaxEndTurns == 3

\* The POSTs one dashboard client is followed for.
MaxPosts == 3

\* The entries of a transcript dump.
MaxEntries == 4

\* ------------------------------------------------------- program constants
MAX_TURNS_PER_STATE == 5
MAX_TURNS_PER_CALL == 30

\* ------------------------------------------------------------------ states
DECISION_STATES ==
    {"welcome", "safety", "service_area", "discovery", "urgency", "pre_confirm"}

ACTION_STATES == {"lookup", "booking"}

TERMINAL_STATES ==
    {"safety_exit", "confirm", "callback", "booking_failed", "urgency_callback"}

State ==
    {"welcome", "non_service", "lookup", "follow_up", "manage_booking",
     "safety", "safety_exit", "service_area", "discovery", "urgency",
     "urgency_callback", "pre_confirm", "booking", "booking_failed",
     "confirm", "callback"}

TRANSITIONS ==
    [st \in State |->
        CASE st = "welcome"        -> {"lookup", "non_service", "callback"}
          [] st = "non_service"    -> {"safety", "callback"}
          [] st = "lookup"         -> {"safety", "follow_up", "manage_booking", "callback"}
          [] st = "follow_up"      -> {"safety", "callback"}
          [] st = "manage_booking" -> {"confirm", "safety", "callback"}
          [] st = "safety"         -> {"service_area", "safety_exit"}
          [] st = "service_area"   -> {"discovery", "callback"}
          [] st = "discovery"      -> {"urgency"}
          [] st = "urgency"        -> {"pre_confirm", "urgency_callback", "callback"}
          [] st = "pre_confirm"    -> {"booking", "callback"}
          [] st = "booking"        -> {"confirm", "booking_failed"}
          [] OTHER                 -> {}]

\* States that have a canned terminal script.
TERMINAL_SCRIPTS == {"callback", "booking_failed", "safety_exit"}

\* ---------------------------------------------------------------- text
W(s) == [word |-> s, digits |-> <<>>]

N(ds) == [word |-> "", digits |-> ds]

\* " ".join(texts)
RECURSIVE Join(_)
Join(texts) ==
    IF texts = <<>> THEN <<>> ELSE Head(texts) \o Join(Tail(texts))

\* re.search(r'\bkw\b', lower) for one keyword
MatchKeyword(text, kw) ==
    \E i \in 1..(Len(text) - Len(kw) + 1) :
        \A j \in 1..Len(kw) : text[i + j - 1].word = kw[j]

match_any_keyword(text, keywords) ==
    \E kw \in keywords : MatchKeyword(text, kw)

\* ------------------------------------------------------------ keyword sets
SCHEDULE_SIGNALS ==
    {<<"yes">>, <<"yeah">>, <<"schedule">>, <<"book">>, <<"sure">>, <<"go", "ahead">>}

NEW_ISSUE_SIGNALS ==
    {<<"new", "issue">>, <<"something", "else">>, <<"different", "problem">>,
     <<"also">>, <<"another">>}

NO_SIGNALS ==
    {<<"no">>, <<"nope">>, <<"nah">>, <<"nothing", "like", "that">>, <<"we're", "fine">>,
     <<"all", "good">>, <<"just", "not", "cooling">>, <<"just", "not", "heating">>}

URGENT_SIGNALS ==
    {<<"today">>, <<"asap">>, <<"right", "away">>, <<"as", "soon", "as">>,
     <<"emergency">>, <<"right", "now">>, <<"soonest">>, <<"urgent">>,
     <<"immediately">>, <<"earliest">>, <<"soon", "as", "possible">>}

ROUTINE_SIGNALS ==
    {<<"whenever">>, <<"this", "week">>, <<"next", "few", "days">>, <<"no", "rush">>,
     <<"not", "urgent">>}

TIME_PATTERNS ==
    {<<"tomorrow">>, <<"monday">>, <<"tuesday">>, <<"wednesday">>, <<"thursday">>,
     <<"friday">>, <<"saturday">>, <<"sunday">>, <<"morning">>, <<"afternoon">>,
     <<"evening">>, <<"following", "day">>, <<"next", "day">>}

YES_SIGNALS ==
    {<<"yes">>, <<"yeah">>, <<"yep">>, <<"sounds", "right">>, <<"sounds", "good">>,
     <<"correct">>, <<"that's", "right">>, <<"go", "ahead">>}

CONFIRM_CLOSE_SIGNALS ==
    {<<"thanks">>, <<"thank", "you">>, <<"bye">>, <<"goodbye">>, <<"that's", "it">>,
     <<"that's", "all">>, <<"all", "good">>, <<"i'm", "good">>, <<"nothing", "else">>}

BOOKING_LANGUAGE ==
    {<<"appointment">>, <<"schedule">>, <<"book">>, <<"tech", "out">>, <<"available">>,
     <<"slot">>, <<"open">>}

NON_SERVICE_KEYWORDS ==
    {<<"billing">>, <<"bill">>, <<"charge">>, <<"payment">>, <<"warranty">>,
     <<"invoice">>, <<"vendor">>, <<"supplier">>, <<"selling">>, <<"partnership">>,
     <<"parts", "supplier">>, <<"hiring">>, <<"job">>, <<"apply">>, <<"position">>,
     <<"employment">>, <<"wrong", "number">>}

FOLLOW_UP_KEYWORDS ==
    {<<"following", "up">>, <<"called", "before">>, <<"waiting", "for", "callback">>,
     <<"checking", "on">>, <<"any", "update">>, <<"called", "earlier">>,
     <<"still", "waiting">>}

MANAGE_BOOKING_KEYWORDS ==
    {<<"my", "appointment">>, <<"reschedule">>, <<"cancel", "my">>, <<"cancel", "the">>,
     <<"change", "my", "appointment">>, <<"move", "my", "appointment">>}

SAFETY_KEYWORDS ==
    {<<"gas">>, <<"burning">>, <<"smoke">>, <<"co", "detector">>,
     <<"carbon", "monoxide">>, <<"sparks">>, <<"fire">>}

SAFETY_RETRACTION_KEYWORDS ==
    {<<"never", "mind">>, <<"but", "don't", "worry">>, <<"actually", "no">>,
     <<"not", "the", "issue">>, <<"forget", "i", "said">>, <<"i'm", "fine">>,
     <<"we're", "okay">>, <<"no", "emergency">>, <<"that's", "not", "it">>,
     <<"not", "really">>}

HIGH_TICKET_POSITIVE ==
    {<<"new", "system">>, <<"new", "unit">>, <<"new", "ac">>, <<"new", "furnace">>,
     <<"replacement">>, <<"replace">>, <<"quote">>, <<"estimate">>,
     <<"how", "much", "for", "a", "new">>, <<"cost", "of", "a", "new">>,
     <<"upgrade">>, <<"whole", "new">>, <<"brand", "new">>, <<"installing", "a", "new">>}

HIGH_TICKET_NEGATIVE ==
    {<<"broken">>, <<"not", "working">>, <<"stopped", "working">>,
     <<"won't", "turn", "on">>, <<"cover">>, <<"part">>, <<"piece">>, <<"component">>,
     <<"noise">>, <<"leak">>, <<"smell">>, <<"drip">>, <<"tune", "up">>, <<"check">>,
     <<"maintenance">>, <<"filter">>}

CALLBACK_REQUEST_KEYWORDS ==
    {<<"call", "me", "back">>, <<"callback">>, <<"just", "call">>,
     <<"have", "someone", "call">>, <<"have", "the", "owner", "call">>,
     <<"don't", "want", "to", "schedule">>}

WORD_TO_DIGIT ==
    [w \in {"zero", "oh", "o", "one", "two", "three", "four", "five", "six",
            "seven", "eight", "nine"} |->
        CASE w \in {"zero", "oh", "o"} -> 0
          [] w = "one" -> 1 [] w = "two" -> 2 [] w = "three" -> 3
          [] w = "four" -> 4 [] w = "five" -> 5 [] w = "six" -> 6
          [] w = "seven" -> 7 [] w = "eight" -> 8 [] w = "nine" -> 9]

\* -------------------------------------------------------------- validators
\* Spoken digits: re.findall(r"[a-zA-Z]+|\d", text.lower()), each token mapped
\* through WORD_TO_DIGIT or kept when it is a digit.
RECURSIVE words_to_digits(_)
words_to_digits(text) ==
    IF text = <<>> THEN <<>>
    ELSE LET tok == Head(text)
             ds == IF tok.word = "" THEN tok.digits
                   ELSE IF tok.word \in DOMAIN WORD_TO_DIGIT
                        THEN <<WORD_TO_DIGIT[tok.word]>>
                        ELSE <<>>
         IN ds \o words_to_digits(Tail(text))

\* A ZIP is a sequence of digits; "" is <<>>.
validate_zip(value) ==
    IF value = <<>> THEN <<>>
    ELSE IF Len(value) = 5 THEN value ELSE <<>>

is_service_area(zip_code) ==
    LET validated == validate_zip(zip_code)
    IN IF validated = <<>> THEN FALSE
       ELSE validated[1] = 7 /\ validated[2] = 8 /\ validated[3] = 7

\* re.search(r"\b(\d{5})\b", text): the first number token of five digits.
FiveDigitTokens(text) ==
    {i \in 1..Len(text) : text[i].word = "" /\ Len(text[i].digits) = 5}

ZipMatchWordBounded(text) ==
    IF FiveDigitTokens(text) = {} THEN <<>>
    ELSE text[CHOOSE i \in FiveDigitTokens(text) :
                  \A j \in FiveDigitTokens(text) : i <= j].digits

\* re.search(r"(\d{5})", digit_str): the first five digits of the string.
ZipMatchDigits(digit_str) ==
    IF Len(digit_str) >= 5 THEN SubSeq(digit_str, 1, 5) ELSE <<>>

\* Names and addresses are opaque strings; the regular expressions of the
\* validators are given by the sets of the representative values they match.
SENTINEL_VALUES ==
    {"not provided", "n/a", "na", "unknown", "none", "tbd", "{{customer_name}}",
     "{{zip_code}}", "{{service_address}}", "auto", "customer_name",
     "service_address"}

Lower(v) ==
    CASE v = "N/A" -> "n/a"
      [] v = "Unknown" -> "unknown"
      [] OTHER -> v

PhoneLike == {"5125551234", "512-555-1234"}

HasTemplate == {"{{customer_name}}", "{{name}}"}

validate_name(value) ==
    IF value = "" THEN ""
    ELSE IF Lower(value) \in SENTINEL_VALUES THEN ""
    ELSE IF value \in PhoneLike THEN ""
    ELSE IF value \in HasTemplate THEN ""
    ELSE value

ContainsOr == {"123 Main or 456 Oak"}

NoLetter == {"7801", "78001"}

ShorterThan5 == {"Oak", "1 Rk", "7801"}

validate_address(value) ==
    IF value = "" THEN ""
    ELSE IF Lower(value) \in SENTINEL_VALUES THEN ""
    ELSE IF value \in ContainsOr THEN ""
    ELSE IF value \in NoLetter THEN ""
    ELSE IF value \in ShorterThan5 THEN ""
    ELSE value

classify_intent(text) ==
    IF match_any_keyword(text, MANAGE_BOOKING_KEYWORDS) THEN "manage_booking"
    ELSE IF match_any_keyword(text, FOLLOW_UP_KEYWORDS) THEN "follow_up"
    ELSE IF match_any_keyword(text, NON_SERVICE_KEYWORDS) THEN "non_service"
    ELSE "service"

detect_safety_emergency(text) ==
    IF ~match_any_keyword(text, SAFETY_KEYWORDS) THEN FALSE
    ELSE ~match_any_keyword(text, SAFETY_RETRACTION_KEYWORDS)

detect_high_ticket(text) ==
    IF ~match_any_keyword(text, HIGH_TICKET_POSITIVE) THEN FALSE
    ELSE ~match_any_keyword(text, HIGH_TICKET_NEGATIVE)

detect_callback_request(text) ==
    match_any_keyword(text, CALLBACK_REQUEST_KEYWORDS)

\* ----------------------------------------------------------------- session
CallSession ==
    [state |-> "welcome",
     caller_known |-> FALSE,
     customer_name |-> "",
     zip_code |-> <<>>,
     service_address |-> "",
     has_appointment |-> FALSE,
     caller_intent |-> "",
     problem_description |-> <<>>,
     equipment_type |-> "",
     problem_duration |-> "",
     preferred_time |-> <<>>,
     urgency_tier |-> "routine",
     lead_type |-> "",
     caller_confirmed |-> FALSE,
     booking_confirmed |-> FALSE,
     booking_attempted |-> FALSE,
     callback_created |-> FALSE,
     callback_attempts |-> 0,
     turn_count |-> 0,
     state_turn_count |-> 0,
     agent_has_responded |-> FALSE,
     terminal_reply_used |-> FALSE]

Action(speak, call_tool, end_call, needs_llm) ==
    [speak |-> speak, call_tool |-> call_tool, end_call |-> end_call,
     needs_llm |-> needs_llm]

\* What a handler hands back: the mutated session and the Action.
Ret(s, a) == [session |-> s, action |-> a]

_transition(s, new_state) ==
    [s EXCEPT !.state = new_state,
              !.state_turn_count = 0,
              !.agent_has_responded = FALSE]

\* ---------------------------------------------------------- state handlers
_handle_welcome(session, text) ==
    LET intent == classify_intent(text)
        s1 == [session EXCEPT !.caller_intent = intent]
    IN IF intent = "non_service"
       THEN Ret(_transition(s1, "non_service"), Action("", "", FALSE, TRUE))
       ELSE Ret(_transition(s1, "lookup"), Action("", "lookup_caller", FALSE, FALSE))

_handle_non_service(session, text) ==
    IF match_any_keyword(text, SCHEDULE_SIGNALS)
    THEN Ret(_transition(session, "safety"), Action("", "", FALSE, TRUE))
    ELSE Ret(session, Action("", "", FALSE, TRUE))

_handle_lookup(session, text) ==
    Ret(session, Action("", "lookup_caller", FALSE, FALSE))

_handle_follow_up(session, text) ==
    IF match_any_keyword(text, NEW_ISSUE_SIGNALS)
    THEN Ret(_transition(session, "safety"), Action("", "", FALSE, TRUE))
    ELSE IF match_any_keyword(text, SCHEDULE_SIGNALS)
    THEN Ret(_transition(session, "safety"), Action("", "", FALSE, TRUE))
    ELSE Ret(session, Action("", "", FALSE, TRUE))

_handle_manage_booking(session, text) ==
    IF match_any_keyword(text, NEW_ISSUE_SIGNALS)
    THEN Ret(_transition(session, "safety"), Action("", "", FALSE, TRUE))
    ELSE Ret(session, Action("", "", FALSE, TRUE))

\* _handle_safety asking to end the call itself on an emergency.
_handle_safety_ends_call(session, text) ==
    IF detect_safety_emergency(text)
    THEN Ret(_transition(session, "safety_exit"), Action("", "", TRUE, TRUE))
    ELSE IF match_any_keyword(text, NO_SIGNALS)
    THEN Ret(_transition(session, "service_area"), Action("", "", FALSE, TRUE))
    ELSE Ret(session, Action("", "", FALSE, TRUE))

_handle_safety(session, text) ==
    IF detect_safety_emergency(text)
    THEN Ret(_transition(session, "safety_exit"), Action("", "", FALSE, TRUE))
    ELSE IF match_any_keyword(text, NO_SIGNALS)
    THEN Ret(_transition(session, "service_area"), Action("", "", FALSE, TRUE))
    ELSE Ret(session, Action("", "", FALSE, TRUE))

_handle_safety_exit(session, text) ==
    Ret(session, Action("", "", TRUE, TRUE))

\* _handle_service_area taking any ZIP for an in-area one.
_handle_service_area_any_zip(session, text) ==
    LET zip1 == IF session.zip_code = <<>>
                THEN validate_zip(ZipMatchWordBounded(text))
                ELSE session.zip_code
        zip2 == IF session.zip_code = <<>> /\ zip1 = <<>>
                THEN validate_zip(ZipMatchDigits(words_to_digits(text)))
                ELSE zip1
        s1 == [session EXCEPT !.zip_code = zip2]
    IN IF s1.zip_code # <<>>
       THEN Ret(_transition(s1, "discovery"), Action("", "", FALSE, TRUE))
       ELSE Ret(s1, Action("", "", FALSE, TRUE))

_handle_service_area(session, text) ==
    LET zip1 == IF session.zip_code = <<>>
                THEN validate_zip(ZipMatchWordBounded(text))
                ELSE session.zip_code
        zip2 == IF session.zip_code = <<>> /\ zip1 = <<>>
                THEN validate_zip(ZipMatchDigits(words_to_digits(text)))
                ELSE zip1
        s1 == [session EXCEPT !.zip_code = zip2]
    IN IF s1.zip_code # <<>>
       THEN IF is_service_area(s1.zip_code)
            THEN Ret(_transition(s1, "discovery"), Action("", "", FALSE, TRUE))
            ELSE Ret(_transition(s1, "callback"), Action("", "", FALSE, TRUE))
       ELSE Ret(s1, Action("", "", FALSE, TRUE))

_handle_discovery(session, text) ==
    LET s1 == [session EXCEPT
                   !.customer_name = validate_name(session.customer_name),
                   !.service_address = validate_address(session.service_address)]
    IN IF s1.customer_name # "" /\ s1.problem_description # <<>>
          /\ s1.service_address # ""
       THEN LET s2 == IF detect_high_ticket(s1.problem_description)
                      THEN [s1 EXCEPT !.lead_type = "high_ticket"]
                      ELSE s1
            IN Ret(_transition(s2, "urgency"), Action("Got it.", "", FALSE, FALSE))
       ELSE Ret(s1, Action("", "", FALSE, TRUE))

_handle_urgency(session, text) ==
    IF detect_callback_request(text)
    THEN Ret(_transition(session, "urgency_callback"), Action("", "", FALSE, TRUE))
    ELSE IF session.lead_type = "high_ticket"
    THEN Ret(_transition(session, "urgency_callback"), Action("", "", FALSE, TRUE))
    ELSE IF session.has_appointment /\ match_any_keyword(text, MANAGE_BOOKING_KEYWORDS)
    THEN Ret(_transition(session, "callback"), Action("", "", FALSE, TRUE))
    ELSE IF match_any_keyword(text, URGENT_SIGNALS)
    THEN Ret(_transition([session EXCEPT
                              !.urgency_tier = "urgent",
                              !.preferred_time = <<W("soonest"), W("available")>>],
                         "pre_confirm"),
             Action("", "", FALSE, TRUE))
    ELSE IF match_any_keyword(text, ROUTINE_SIGNALS)
    THEN Ret(_transition([session EXCEPT
                              !.urgency_tier = "routine",
                              !.preferred_time = <<W("soonest"), W("available")>>],
                         "pre_confirm"),
             Action("", "", FALSE, TRUE))
    ELSE IF match_any_keyword(text, TIME_PATTERNS)
    THEN Ret(_transition([session EXCEPT
                              !.urgency_tier = "routine",
                              !.preferred_time = text],
                         "pre_confirm"),
             Action("", "", FALSE, TRUE))
    ELSE Ret(session, Action("", "", FALSE, TRUE))

_handle_urgency_callback(session, text) ==
    IF session.lead_type = "high_ticket"
    THEN Ret(session, Action("", "send_sales_lead_alert", FALSE, TRUE))
    ELSE IF ~session.callback_created
    THEN Ret(session, Action("", "create_callback", FALSE, TRUE))
    ELSE Ret(session, Action("", "", TRUE, TRUE))

\* _handle_pre_confirm leaving booking_attempted to the BOOKING handler.
_handle_pre_confirm_no_attempt(session, text) ==
    IF detect_callback_request(text)
    THEN Ret(_transition(session, "callback"), Action("", "", FALSE, TRUE))
    ELSE IF match_any_keyword(text, YES_SIGNALS)
    THEN Ret(_transition([session EXCEPT !.caller_confirmed = TRUE], "booking"),
             Action("Let me check what we've got open.", "book_service", FALSE, TRUE))
    ELSE Ret(session, Action("", "", FALSE, TRUE))

\* _handle_pre_confirm booking on any answer that is not a callback request.
_handle_pre_confirm_books_unasked(session, text) ==
    IF detect_callback_request(text)
    THEN Ret(_transition(session, "callback"), Action("", "", FALSE, TRUE))
    ELSE Ret(_transition([session EXCEPT
                              !.caller_confirmed = match_any_keyword(text, YES_SIGNALS),
                              !.booking_attempted = TRUE],
                         "booking"),
             Action("Let me check what we've got open.", "book_service", FALSE, TRUE))

_handle_pre_confirm(session, text) ==
    IF detect_callback_request(text)
    THEN Ret(_transition(session, "callback"), Action("", "", FALSE, TRUE))
    ELSE IF match_any_keyword(text, YES_SIGNALS)
    THEN Ret(_transition([session EXCEPT !.caller_confirmed = TRUE,
                                         !.booking_attempted = TRUE],
                         "booking"),
             Action("Let me check what we've got open.", "book_service", FALSE, TRUE))
    ELSE Ret(session, Action("", "", FALSE, TRUE))

_handle_booking(session, text) ==
    IF session.booking_attempted
    THEN Ret(session, Action("", "", FALSE, FALSE))
    ELSE Ret([session EXCEPT !.booking_attempted = TRUE],
             Action("", "book_service", FALSE, FALSE))

_handle_booking_failed(session, text) ==
    IF ~session.callback_created
    THEN Ret(session, Action("", "create_callback", FALSE, TRUE))
    ELSE Ret(session, Action("", "", TRUE, TRUE))

_handle_confirm(session, text) ==
    IF session.state_turn_count < 1
    THEN Ret(session, Action("", "", FALSE, TRUE))
    ELSE IF match_any_keyword(text, CONFIRM_CLOSE_SIGNALS) \/ text = <<>>
    THEN Ret(session,
             Action("Alright, thanks for calling ACE Cooling - stay cool out there.",
                    "", TRUE, FALSE))
    ELSE Ret(session, Action("", "", TRUE, TRUE))

_handle_callback(session, text) ==
    IF session.callback_created
    THEN Ret(session, Action("", "", TRUE, TRUE))
    ELSE IF session.callback_attempts >= 2
    THEN Ret(session, Action("", "", TRUE, TRUE))
    ELSE Ret(session, Action("", "create_callback", FALSE, TRUE))

\* getattr(self, f"_handle_{session.state.value}")(session, user_text)
Dispatch(session, text) ==
    CASE session.state = "welcome"          -> _handle_welcome(session, text)
      [] session.state = "non_service"      -> _handle_non_service(session, text)
      [] session.state = "lookup"           -> _handle_lookup(session, text)
      [] session.state = "follow_up"        -> _handle_follow_up(session, text)
      [] session.state = "manage_booking"   -> _handle_manage_booking(session, text)
      [] session.state = "safety"           -> _handle_safety(session, text)
      [] session.state = "safety_exit"      -> _handle_safety_exit(session, text)
      [] session.state = "service_area"     -> _handle_service_area(session, text)
      [] session.state = "discovery"        -> _handle_discovery(session, text)
      [] session.state = "urgency"          -> _handle_urgency(session, text)
      [] session.state = "urgency_callback" -> _handle_urgency_callback(session, text)
      [] session.state = "pre_confirm"      -> _handle_pre_confirm(session, text)
      [] session.state = "booking"          -> _handle_booking(session, text)
      [] session.state = "booking_failed"   -> _handle_booking_failed(session, text)
      [] session.state = "confirm"          -> _handle_confirm(session, text)
      [] session.state = "callback"         -> _handle_callback(session, text)

\* CountTurn as it was before the fragment fix: every call counts.
CountTurn_every_call(session) ==
    [session EXCEPT !.turn_count = @ + 1,
                    !.state_turn_count = @ + 1,
                    !.agent_has_responded = FALSE]

\* The counters at the head of process(): turn_count += 1, and
\* state_turn_count += 1 only when the agent has responded since.
CountTurn(session) ==
    LET s1 == [session EXCEPT !.turn_count = @ + 1]
    IN IF s1.agent_has_responded
       THEN [s1 EXCEPT !.state_turn_count = @ + 1, !.agent_has_responded = FALSE]
       ELSE s1

\* process() with the two limit checks in the other order.
process_state_limit_first(session, user_text) ==
    LET s1 == CountTurn(session)
    IN IF s1.state_turn_count > MAX_TURNS_PER_STATE
       THEN Ret(_transition(s1, "callback"),
                Action("Let me have someone from the team call you back.",
                       "create_callback", FALSE, FALSE))
       ELSE IF s1.turn_count > MAX_TURNS_PER_CALL
       THEN Ret(_transition(s1, "callback"),
                Action("I apologize, but let me have someone from the team call you back to help you out.",
                       "create_callback", TRUE, FALSE))
       ELSE Dispatch(s1, user_text)

\* process() with the per-call limit one turn late.
process_limit_one_late(session, user_text) ==
    LET s1 == CountTurn(session)
    IN IF s1.turn_count > MAX_TURNS_PER_CALL + 1
       THEN Ret(_transition(s1, "callback"),
                Action("I apologize, but let me have someone from the team call you back to help you out.",
                       "create_callback", TRUE, FALSE))
       ELSE IF s1.state_turn_count > MAX_TURNS_PER_STATE
       THEN Ret(_transition(s1, "callback"),
                Action("Let me have someone from the team call you back.",
                       "create_callback", FALSE, FALSE))
       ELSE Dispatch(s1, user_text)

\* StateMachine.process(session, user_text) -> Action
process(session, user_text) ==
    LET s1 == CountTurn(session)
    IN IF s1.turn_count > MAX_TURNS_PER_CALL
       THEN Ret(_transition(s1, "callback"),
                Action("I apologize, but let me have someone from the team call you back to help you out.",
                       "create_callback", TRUE, FALSE))
       ELSE IF s1.state_turn_count > MAX_TURNS_PER_STATE
       THEN Ret(_transition(s1, "callback"),
                Action("Let me have someone from the team call you back.",
                       "create_callback", FALSE, FALSE))
       ELSE Dispatch(s1, user_text)

\* ------------------------------------------------------ tool-result handlers
\* _tool_result_lookup_caller routing on the intent alone.
_tool_result_lookup_caller_intent_only(session, result) ==
    LET s1 == [session EXCEPT
                   !.caller_known = result.found,
                   !.customer_name = validate_name(result.customerName),
                   !.zip_code = validate_zip(result.zipCode),
                   !.service_address = validate_address(result.address),
                   !.has_appointment = result.upcomingAppointment]
    IN IF s1.caller_intent = "follow_up"
       THEN _transition(s1, "follow_up")
       ELSE IF s1.caller_intent = "manage_booking"
       THEN _transition(s1, "manage_booking")
       ELSE _transition(s1, "safety")

\* A lookup_caller result: [found, customerName, zipCode, address,
\* upcomingAppointment]; a missing key is the empty value.
_tool_result_lookup_caller(session, result) ==
    LET s1 == [session EXCEPT
                   !.caller_known = result.found,
                   !.customer_name = validate_name(result.customerName),
                   !.zip_code = validate_zip(result.zipCode),
                   !.service_address = validate_address(result.address),
                   !.has_appointment = result.upcomingAppointment]
    IN IF s1.caller_intent = "follow_up"
       THEN _transition(s1, "follow_up")
       ELSE IF s1.caller_intent = "manage_booking" /\ s1.has_appointment
       THEN _transition(s1, "manage_booking")
       ELSE _transition(s1, "safety")

\* A book_service result: [booked, booking_confirmed, error].
_tool_result_book_service(session, result) ==
    IF result.booked \/ result.booking_confirmed
    THEN _transition([session EXCEPT !.booking_confirmed = TRUE], "confirm")
    ELSE _transition([session EXCEPT !.booking_confirmed = FALSE], "booking_failed")

\* A create_callback result: [success, error]; error is truthy when set.
_tool_result_create_callback(session, result) ==
    IF result.error
    THEN [session EXCEPT !.callback_created = FALSE, !.callback_attempts = @ + 1]
    ELSE [session EXCEPT !.callback_created = TRUE]

_tool_result_send_sales_lead_alert(session, result) == session

handle_tool_result(session, tool, result) ==
    CASE tool = "lookup_caller"         -> _tool_result_lookup_caller(session, result)
      [] tool = "book_service"          -> _tool_result_book_service(session, result)
      [] tool = "create_callback"       -> _tool_result_create_callback(session, result)
      [] tool = "send_sales_lead_alert" -> _tool_result_send_sales_lead_alert(session, result)
      [] OTHER                          -> session

\* ------------------------------------------------------------------ inputs
\* What the caller may say (the text of one TranscriptionFrame, stripped and
\* non-empty).
Utterances ==
    {<<W("my"), W("ac"), W("is"), W("blowing"), W("warm")>>,
     <<W("i"), W("have"), W("a"), W("billing"), W("question")>>,
     <<W("i'm"), W("following"), W("up")>>,
     <<W("reschedule"), W("my"), W("appointment")>>,
     <<W("i"), W("smell"), W("gas")>>,
     <<W("gas"), W("heater"), W("but"), W("never"), W("mind")>>,
     <<W("no")>>,
     <<W("seven"), W("eight"), W("seven"), W("oh"), W("one")>>,
     <<N(<<9, 0, 2, 1, 0>>)>>,
     <<W("tomorrow"), W("morning")>>,
     <<W("yes"), W("book"), W("it")>>,
     <<W("just"), W("call"), W("me"), W("back")>>,
     <<W("thanks")>>}

\* What a caller who says little may say.
LongUtterances ==
    {<<W("my"), W("ac"), W("is"), W("blowing"), W("warm")>>,
     <<W("i"), W("have"), W("a"), W("billing"), W("question")>>,
     <<W("no")>>,
     <<W("i"), W("smell"), W("gas")>>}

\* What the backend may answer to lookup_caller (the unknown-caller document is
\* also the failure document of the client).
LookupResults ==
    {[found |-> FALSE, customerName |-> "", zipCode |-> <<>>, address |-> "",
      upcomingAppointment |-> FALSE],
     [found |-> TRUE, customerName |-> "Jonas", zipCode |-> <<7, 8, 7, 4, 5>>,
      address |-> "4210 South Lamar Blvd", upcomingAppointment |-> FALSE],
     [found |-> TRUE, customerName |-> "Jonas", zipCode |-> <<>>,
      address |-> "4210 South Lamar Blvd", upcomingAppointment |-> TRUE],
     [found |-> TRUE, customerName |-> "N/A", zipCode |-> <<9, 0, 2, 1, 0>>,
      address |-> "78001", upcomingAppointment |-> FALSE]}

BookResults ==
    {[booked |-> TRUE, booking_confirmed |-> FALSE, error |-> FALSE],
     [booked |-> FALSE, booking_confirmed |-> FALSE, error |-> TRUE]}

CallbackResults ==
    {[success |-> TRUE, error |-> FALSE],
     [success |-> FALSE, error |-> TRUE]}

AlertResults ==
    {[success |-> TRUE, error |-> FALSE]}

ToolResults(tool) ==
    CASE tool = "lookup_caller"         -> LookupResults
      [] tool = "book_service"          -> BookResults
      [] tool = "create_callback"       -> CallbackResults
      [] tool = "send_sales_lead_alert" -> AlertResults

\* What the extraction LLM may return; the empty document is also its failure.
ExtractorOutputs ==
    {[customer_name |-> "", problem_description |-> <<>>, service_address |-> "",
      zip_code |-> <<>>, preferred_time |-> <<>>, equipment_type |-> "",
      problem_duration |-> ""],
     [customer_name |-> "Jonas",
      problem_description |-> <<W("ac"), W("not"), W("cooling")>>,
      service_address |-> "4210 South Lamar Blvd", zip_code |-> <<7, 8, 0, 0, 1>>,
      preferred_time |-> <<>>, equipment_type |-> "AC",
      problem_duration |-> "2 days"],
     [customer_name |-> "Jon",
      problem_description |-> <<W("quote"), W("for"), W("a"), W("new"), W("system")>>,
      service_address |-> "", zip_code |-> <<>>, preferred_time |-> <<>>,
      equipment_type |-> "", problem_duration |-> ""]}

\* What the scoped wrap-up LLM may reply ("" when the request fails).
ScopedReplies ==
    {<<>>,
     <<W("within"), W("the"), W("hour")>>,
     <<W("we"), W("can"), W("schedule"), W("that")>>}

\* ---------------------------------------------------------- circuit breaker
\* _opened_at = None
None == 0 - 1

\* CircuitBreaker(failure_threshold, cooldown_seconds): closed, never opened.
CircuitBreaker(failure_threshold, cooldown_seconds) ==
    [failure_threshold |-> failure_threshold,
     cooldown_seconds |-> cooldown_seconds,
     _consecutive_failures |-> 0,
     _opened_at |-> None]

\* should_try with the half-open probe allowed only after the cooldown.
should_try_after_cooldown(cb, t) ==
    IF cb._consecutive_failures < cb.failure_threshold THEN TRUE
    ELSE cb._opened_at # None /\ cb._opened_at # 0
         /\ t - cb._opened_at > cb.cooldown_seconds

\* CircuitBreaker.should_try() at time t; None and 0.0 are both falsy.
should_try(cb, t) ==
    IF cb._consecutive_failures < cb.failure_threshold THEN TRUE
    ELSE cb._opened_at # None /\ cb._opened_at # 0
         /\ t - cb._opened_at >= cb.cooldown_seconds

\* record_success that only clears the count.
record_success_keeps_clock(cb) ==
    [cb EXCEPT !._consecutive_failures = 0]

record_success(cb) ==
    [cb EXCEPT !._consecutive_failures = 0, !._opened_at = None]

record_failure(cb, t) ==
    LET n == cb._consecutive_failures + 1
    IN [cb EXCEPT !._consecutive_failures = n,
                  !._opened_at = IF n >= cb.failure_threshold /\ @ = None
                                 THEN t ELSE @]

\* What a caller of the breaker has seen: the last call, the answer of the
\* last should_try() and when it was asked, the failures recorded since the last success, when that
\* run of failures reached the threshold, and when a failure was last recorded
\* on a half-open breaker.
NoBreakerHist ==
    [op |-> "none", answer |-> TRUE, asked |-> 1, streak |-> 0, opened |-> None,
     reopened |-> None]

\* ---------------------------------------------------------- backend client
\* The key of each tool's document that says whether the call worked.
FlagOf(tool) ==
    CASE tool = "lookup_caller" -> "found"
      [] tool = "book_service"  -> "booked"
      [] OTHER                  -> "success"

\* The document a method returns without sending, its breaker refusing.
UnavailableDocument(tool) == [flag |-> FlagOf(tool), value |-> FALSE, note |-> "unavailable"]

\* The document a method returns from its except clause.
FailedDocument(tool) == [flag |-> FlagOf(tool), value |-> FALSE, note |-> "failed"]

\* resp.json() of a response the backend answered the tool with.
ResponseDocument(tool) == [flag |-> FlagOf(tool), value |-> TRUE, note |-> "response"]

\* What the request may come to: a 2xx response with a JSON body, a 2xx
\* response whose body is not JSON, a response raise_for_status() refuses, and
\* a post() that raises (connection error, timeout).
Responses == {"ok", "not_json", "non_2xx", "raises"}

\* The methods of V2Client.
V2_METHODS ==
    {"lookup_caller", "book_service", "create_callback", "send_sales_lead_alert",
     "manage_appointment"}

\* One method of V2Client, all five having the same shape: the breaker and
\* what the caller gets. record_success() comes before resp.json().
V2Call(cb, t, tool, response) ==
    IF ~should_try(cb, t)
    THEN [circuit |-> cb, sent |-> FALSE, raised |-> FALSE, failures |-> 0,
          doc |-> UnavailableDocument(tool)]
    ELSE CASE response = "ok" ->
                [circuit |-> record_success(cb), sent |-> TRUE, raised |-> FALSE,
                 failures |-> 0, doc |-> ResponseDocument(tool)]
           [] response = "not_json" ->
                [circuit |-> record_failure(record_success(cb), t), sent |-> TRUE,
                 raised |-> FALSE, failures |-> 1, doc |-> FailedDocument(tool)]
           [] OTHER ->
                [circuit |-> record_failure(cb, t), sent |-> TRUE, raised |-> FALSE,
                 failures |-> 1, doc |-> FailedDocument(tool)]

\* Before any call. streak counts the calls in a row that were sent and came
\* back as the failure document; third is the time of the third of them.
NoCall ==
    [op |-> "none", tool |-> "", response |-> "ok", at |-> 1, sent |-> FALSE,
     raised |-> FALSE, failures |-> 0, doc |-> ResponseDocument(""),
     streak_before |-> 0, third_before |-> None, streak |-> 0, third |-> None]

\* ------------------------------------------------------------ fallback TTS
\* What a synthesizer's run_tts() generator does next: it yields a frame that
\* is not audio ("frame"), a TTSAudioRawFrame ("audio") or an ErrorFrame
\* ("error"), it raises ("raise"), it lets more than primary_timeout pass
\* before what comes next ("slow"), or it ends ("end"). The fallback's frames
\* are all treated alike.
PrimaryEvents == {"frame", "audio", "error", "raise", "slow", "end"}

FallbackEvents == {"audio", "raise", "end"}

\* The i-th event of a synthesizer as a frame, and the ErrorFrame of the
\* wrapper itself.
FrameOf(src, i) == [src |-> src, i |-> i]

BothFailed == [src |-> "both_failed", i |-> 0]

\* The breaker and the utterance after one step of run_tts.
Step(cb, u) == [circuit |-> cb, tts |-> u]

\* buffer: every frame of the primary so far, in order (buffer.append).
RECURSIVE BufferUpTo(_)
BufferUpTo(n) ==
    IF n = 0 THEN <<>> ELSE Append(BufferUpTo(n - 1), FrameOf("primary", n))

run_tts_without_breaker(cb, t, u) ==
    Step(cb, [u EXCEPT !.phase = "buffering", !.primary_invoked = TRUE])

\* run_tts up to the first event of a synthesizer: the primary if the breaker
\* lets it try, else _run_fallback after _ensure_fallback_started.
run_tts(cb, t, u) ==
    IF should_try(cb, t)
    THEN Step(cb, [u EXCEPT !.phase = "buffering", !.primary_invoked = TRUE])
    ELSE Step(cb, [u EXCEPT !.phase = "fallback", !._fallback_started = TRUE])

_try_primary_flushes_buffer(cb, t, u, e) ==
    IF e = "frame"
    THEN Step(cb, [u EXCEPT !.primary = Append(@, e)])
    ELSE IF e = "audio"
    THEN Step(cb, [u EXCEPT !.primary = Append(@, e),
                            !.out = BufferUpTo(Len(u.primary) + 1),
                            !.phase = "streaming"])
    ELSE Step(record_failure(cb, t),
              [u EXCEPT !.primary = Append(@, e), !.failures = @ + 1,
                        !.out = BufferUpTo(Len(u.primary)),
                        !.phase = "fallback", !._fallback_started = TRUE])

\* _try_primary before the first audio, on the next event of the primary
\* under _iter_with_timeout: a frame goes to the buffer; the first audio sends
\* the buffer downstream; an ErrorFrame, an exception, a timeout and the end of
\* the generator drop the buffer, record a failure and start _run_fallback.
_try_primary(cb, t, u, e) ==
    IF e = "frame"
    THEN Step(cb, [u EXCEPT !.primary = Append(@, e)])
    ELSE IF e = "audio"
    THEN Step(cb, [u EXCEPT !.primary = Append(@, e),
                            !.out = BufferUpTo(Len(u.primary) + 1),
                            !.phase = "streaming"])
    ELSE Step(record_failure(cb, t),
              [u EXCEPT !.primary = Append(@, e), !.failures = @ + 1,
                        !.phase = "fallback", !._fallback_started = TRUE])

\* _try_primary after the first audio, on the next event of the primary
\* ("async for rest in gen", which waits for a frame as long as it takes): a
\* frame goes downstream; an ErrorFrame breaks the loop and the end of the
\* generator ends it, record_success() following both; an exception leaves
\* through "except Exception", past record_success(), and got_audio keeps the
\* fallback out.
_try_primary_rest(cb, t, u, e) ==
    IF e \in {"frame", "audio"}
    THEN Step(cb, [u EXCEPT !.primary = Append(@, e),
                            !.out = Append(@, FrameOf("primary", Len(u.primary) + 1))])
    ELSE IF e = "slow"
    THEN Step(cb, [u EXCEPT !.primary = Append(@, e)])
    ELSE IF e = "raise"
    THEN Step(cb, [u EXCEPT !.primary = Append(@, e), !.phase = "done"])
    ELSE Step(record_success(cb),
              [u EXCEPT !.primary = Append(@, e), !.successes = @ + 1,
                        !.phase = "done"])

\* _run_fallback on the next event of the fallback: a frame goes downstream,
\* an exception becomes an ErrorFrame of the wrapper.
_run_fallback(cb, t, u, e) ==
    IF e = "audio"
    THEN Step(cb, [u EXCEPT !.fallback = Append(@, e),
                            !.out = Append(@, FrameOf("fallback", Len(u.fallback) + 1))])
    ELSE IF e = "raise"
    THEN Step(cb, [u EXCEPT !.fallback = Append(@, e), !.out = Append(@, BothFailed),
                            !.phase = "done"])
    ELSE Step(cb, [u EXCEPT !.fallback = Append(@, e), !.phase = "done"])

\* Before any utterance. primary and fallback are the events of the two
\* synthesizers so far in this utterance, out the frames run_tts has yielded.
\* streak counts the utterances in a row on which a failure was recorded, no
\* success between them; opened is the time of the one that brought it to the
\* threshold.
NoUtterance ==
    [_fallback_started |-> FALSE, phase |-> "idle", at |-> 1, primary |-> <<>>,
     fallback |-> <<>>, primary_invoked |-> FALSE, out |-> <<>>, failures |-> 0,
     successes |-> 0, started_before |-> FALSE, streak_before |-> 0,
     opened_before |-> None, streak |-> 0, opened |-> None]

\* ------------------------------------------------------ post-call pipeline
\* DashboardClient.__init__(self, webhook_url, webhook_secret, timeout=15.0)
\* called with the keyword arguments given.  The call binds when every keyword
\* names a parameter and every parameter without a default is given; otherwise
\* it is a TypeError.
DashboardClient(keywords) ==
    [raised |-> ~ (/\ keywords \subseteq {"webhook_url", "webhook_secret", "timeout"}
                   /\ {"webhook_url", "webhook_secret"} \subseteq keywords)]

\* What a webhook can do with one POST: answer 2xx with a document, answer
\* non-2xx (raise_for_status raises), or fail on the wire (post raises).
PostResponses == {"ok", "non_2xx", "raises"}

\* One POST of a payload, as the webhook saw it.
Post(payload, response) == [payload |-> payload, response |-> response]

\* DashboardClient.send_job: one POST; any exception is logged and answered by
\* {"success": False}.  responses are what the webhook would answer to this
\* POST and to one after it.
send_job(responses) ==
    [posts |-> <<Post("job", responses[1])>>, success |-> responses[1] = "ok",
     raised |-> FALSE]

\* DashboardClient.send_call: as send_job, to calls_url.
send_call(responses) ==
    [posts |-> <<Post("call", responses[1])>>, success |-> responses[1] = "ok",
     raised |-> FALSE]

\* DashboardClient.send_emergency_alert: as send_job, to alerts_url.
send_emergency_alert(responses) ==
    [posts |-> <<Post("alert", responses[1])>>, success |-> responses[1] = "ok",
     raised |-> FALSE]

\* The environment of handle_call_ended: DASHBOARD_JOBS_URL and
\* DASHBOARD_WEBHOOK_SECRET, set or empty.
Environments == [jobs_url : {"", "jobs"}, webhook_secret : {"", "secret"}]

Payloads == {"job", "call", "alert"}

\* handle_call_ended on session s: webhooks[p] is what the webhook of payload
\* p answers while the function runs.  The result is what the call left
\* behind: the POSTs in the order they were made, the number of times the
\* transcript dump was logged, and whether an exception left the function.
handle_call_ended(s, env, webhooks) ==
    IF env.jobs_url = "" \/ env.webhook_secret = ""
    THEN [configured |-> FALSE, raised |-> FALSE, posts |-> <<>>, dumps |-> 0]
    ELSE IF DashboardClient({"jobs_url", "calls_url", "alerts_url",
                             "webhook_secret"}).raised
    THEN [configured |-> TRUE, raised |-> TRUE, posts |-> <<>>, dumps |-> 0]
    ELSE [configured |-> TRUE, raised |-> FALSE,
          posts |-> send_job(<<webhooks["job"], webhooks["job"]>>).posts
                    \o send_call(<<webhooks["call"], webhooks["call"]>>).posts
                    \o (IF s.state = "safety_exit"
                        THEN send_emergency_alert(
                                 <<webhooks["alert"], webhooks["alert"]>>).posts
                        ELSE <<>>),
          dumps |-> 1]

\* No send_job, send_call or send_emergency_alert yet.
NoSend == [payload |-> "", responses |-> <<>>, posts |-> <<>>, success |-> FALSE,
           raised |-> FALSE]

NoPostCall ==
    [started |-> FALSE, configured |-> FALSE, raised |-> FALSE, posts |-> <<>>,
     dumps |-> 0, final_state |-> "", uncaptured |-> FALSE, tasks |-> 0,
     sent |-> NoSend]

\* ----------------------------------------------------- the transcript dump
\* A dump is its header fields and its entries.  The header is known by the
\* number of bytes json.dumps gives it with an empty entries list; an entry by
\* its timestamp t and the number of characters of its content.

\* len(json.dumps(entry)) of an entry {"t", "role", "state", "content"} whose
\* content is empty.
EntryOverhead == 62

\* len(json.dumps({"entries": []}))
EntriesOnlyBytes == 15

\* len(json.dumps(entry).encode("utf-8")): json.dumps escapes every character
\* beyond ASCII, so that bytes are characters.
json_dumps(entry) == EntryOverhead + entry.content

\* The loop over the entries with a chunk that is closed although the entry
\* still fits only after it: the size of the entry is left out of the test.
RECURSIVE ChunkEntries_closes_late(_, _, _, _, _)
ChunkEntries_closes_late(entries, chunks_entries, current_chunk, current_size, max_bytes) ==
    IF entries = <<>>
    THEN IF current_chunk # <<>> THEN Append(chunks_entries, current_chunk)
         ELSE chunks_entries
    ELSE LET entry == Head(entries)
             entry_size == json_dumps(entry) + 2
             closes == current_chunk # <<>> /\ current_size > max_bytes
         IN  ChunkEntries_closes_late(
                 Tail(entries),
                 IF closes THEN Append(chunks_entries, current_chunk)
                 ELSE chunks_entries,
                 IF closes THEN <<entry>> ELSE Append(current_chunk, entry),
                 (IF closes THEN EntriesOnlyBytes ELSE current_size) + entry_size,
                 max_bytes)

\* The loop over the entries with the entry that closes a chunk left out of
\* the next one.
RECURSIVE ChunkEntries_drops_on_close(_, _, _, _, _)
ChunkEntries_drops_on_close(entries, chunks_entries, current_chunk, current_size, max_bytes) ==
    IF entries = <<>>
    THEN IF current_chunk # <<>> THEN Append(chunks_entries, current_chunk)
         ELSE chunks_entries
    ELSE LET entry == Head(entries)
             entry_size == json_dumps(entry) + 2
             closes == current_chunk # <<>> /\ current_size + entry_size > max_bytes
         IN  ChunkEntries_drops_on_close(
                 Tail(entries),
                 IF closes THEN Append(chunks_entries, current_chunk)
                 ELSE chunks_entries,
                 IF closes THEN <<>> ELSE Append(current_chunk, entry),
                 IF closes THEN EntriesOnlyBytes ELSE current_size + entry_size,
                 max_bytes)

\* The loop of chunk_transcript_dump over the entries still to place:
\* chunks_entries are the chunks closed so far, current_chunk the open one and
\* current_size the bytes counted for it.
RECURSIVE ChunkEntries(_, _, _, _, _)
ChunkEntries(entries, chunks_entries, current_chunk, current_size, max_bytes) ==
    IF entries = <<>>
    THEN IF current_chunk # <<>> THEN Append(chunks_entries, current_chunk)
         ELSE chunks_entries
    ELSE LET entry == Head(entries)
             entry_size == json_dumps(entry) + 2
             closes == current_chunk # <<>> /\ current_size + entry_size > max_bytes
         IN  ChunkEntries(
                 Tail(entries),
                 IF closes THEN Append(chunks_entries, current_chunk)
                 ELSE chunks_entries,
                 IF closes THEN <<entry>> ELSE Append(current_chunk, entry),
                 (IF closes THEN EntriesOnlyBytes ELSE current_size) + entry_size,
                 max_bytes)

\* One line TRANSCRIPT_DUMP|index/total|payload: the payload has the header
\* fields if header, and the entries.
Chunk(index, total, header, entries) ==
    [index |-> index, total |-> total, header |-> header, entries |-> entries]

\* chunk_transcript_dump(dump, max_bytes): the lines in the order returned.
chunk_transcript_dump(dump, max_bytes) ==
    IF dump.entries = <<>>
    THEN <<Chunk(1, 1, TRUE, <<>>)>>
    ELSE LET chunks_entries ==
                 ChunkEntries(dump.entries, <<>>, <<>>, dump.header, max_bytes)
         IN  [i \in 1..Len(chunks_entries) |->
                 Chunk(i, Len(chunks_entries), i = 1, chunks_entries[i])]

\* The sum of len(json.dumps(entry)) over entries.
RECURSIVE EntriesBytes(_)
EntriesBytes(entries) ==
    IF entries = <<>> THEN 0 ELSE json_dumps(Head(entries)) + EntriesBytes(Tail(entries))

\* len(payload) of a chunk of dump: json.dumps of the header fields (or of
\* none) with the chunk's entries, ", " between two entries.
PayloadBytes(dump, chunk) ==
    (IF chunk.header THEN dump.header ELSE EntriesOnlyBytes)
    + EntriesBytes(chunk.entries)
    + (IF Len(chunk.entries) > 1 THEN 2 * (Len(chunk.entries) - 1) ELSE 0)

\* The entries arrays of the chunks one after the other, in index order.
RECURSIVE Reassemble(_)
Reassemble(chunks) ==
    IF chunks = <<>> THEN <<>> ELSE Head(chunks).entries \o Reassemble(Tail(chunks))

\* The dumps and limits chunking is checked on: header fields of a short and
\* of a long call_sid, contents of a word, a sentence and a paragraph.
HeaderSizes == {106, 144}

ContentChars == {8, 60, 200}

MaxBytesChoices == {200, 400}

NoChunking ==
    [dump |-> [header |-> 0, entries |-> <<>>], max_bytes |-> 0, chunks |-> <<>>,
     done |-> FALSE]

\* --------------------------------------------------------------- processor
VARIABLES
    session,            \* CallSession
    buffer_mode,        \* StateMachineProcessor._buffer_mode (its timer is armed)
    buffer_texts,       \* StateMachineProcessor._buffer_texts
    conversation_len,   \* len(session.conversation_history), counted up to 2
    agent_pending,      \* an assistant message in the context beyond the cursor
    llm_busy,           \* a TranscriptionFrame was pushed and the LLM has not replied
    extraction_tasks,   \* _safe_extraction tasks in flight
    end_tasks,          \* _delayed_end_call tasks in flight
    ended,              \* an EndFrame went downstream
    spoken_911,         \* times the SAFETY_EXIT script was spoken, counted up to 2
    scoped_replies,     \* the scoped LLM replies spoken so far, the first two of them
    last,               \* what the last transcription or flush did
    said,               \* how many lines of CallerScript the scripted caller has said
    breaker,            \* a CircuitBreaker: its two settings and its two fields
    now,                \* time.monotonic()
    breaker_hist,       \* what was done to the breaker, as a caller saw it
    v2,                 \* what the last V2Client call did, as its caller saw it
    tts,                \* FallbackTTSService: _fallback_started and the last run_tts
    post_call,          \* what create_pipeline did after runner.run() returned
    chunking            \* a transcript dump and what chunk_transcript_dump made of it

vars ==
    <<session, buffer_mode, buffer_texts, conversation_len, agent_pending,
      llm_busy, extraction_tasks, end_tasks, ended, spoken_911, scoped_replies,
      last, said,
      breaker, now, breaker_hist, v2, tts, post_call, chunking>>

\* The variables of the processor and those of the components beside it.
processor_vars ==
    <<session, buffer_mode, buffer_texts, conversation_len, agent_pending,
      llm_busy, extraction_tasks, end_tasks, ended, spoken_911, scoped_replies,
      last, said>>

\* The end of the call: the post-call pipeline and the transcript dump.
after == <<post_call, chunking>>

beside == <<breaker, now, breaker_hist, v2, tts, after>>

EXTRACTION_STATES == {"service_area", "discovery", "urgency", "pre_confirm"}

NoAction == Action("", "", FALSE, FALSE)

NoResult == [error |-> FALSE]

NoLast ==
    [op |-> "none", emergency |-> FALSE, processed |-> FALSE,
     pre |-> [state |-> "welcome", state_turn_count |-> 0, turn_count |-> 0,
              agent_has_responded |-> FALSE, callback_attempts |-> 0,
              callback_created |-> FALSE],
     action |-> NoAction, mid_state |-> "welcome", post_state |-> "welcome",
     handler_ran |-> FALSE, facts_kept |-> TRUE, tool |-> "",
     tool_error |-> FALSE, frames |-> <<>>, end_scheduled |-> FALSE,
     fragments |-> <<>>, buffered |-> FALSE, appended |-> FALSE,
     pushed |-> <<>>]

ProcessorInit ==
    /\ session = CallSession
    /\ buffer_mode = FALSE
    /\ buffer_texts = <<>>
    /\ conversation_len = 0
    /\ agent_pending = FALSE
    /\ llm_busy = FALSE
    /\ extraction_tasks = 0
    /\ end_tasks = 0
    /\ ended = FALSE
    /\ spoken_911 = 0
    /\ scoped_replies = <<>>
    /\ last = NoLast
    /\ said = 0

\* Before the call has ended: no post-call run and no dump.
AfterInit ==
    /\ post_call = NoPostCall
    /\ chunking = NoChunking

\* The components beside the processor at rest: a breaker with the defaults.
BesideInit ==
    /\ breaker = CircuitBreaker(3, 60)
    /\ now = 1
    /\ breaker_hist = NoBreakerHist
    /\ v2 = NoCall
    /\ tts = NoUtterance
    /\ AfterInit

Init == ProcessorInit /\ BesideInit

\* _capture_agent_responses: new assistant messages set agent_has_responded.
_capture_agent_responses(s) ==
    IF agent_pending THEN [s EXCEPT !.agent_has_responded = TRUE] ELSE s

Pre(s) ==
    [state |-> s.state, state_turn_count |-> s.state_turn_count,
     turn_count |-> s.turn_count, agent_has_responded |-> s.agent_has_responded,
     callback_attempts |-> s.callback_attempts,
     callback_created |-> s.callback_created]

\* Whether process() reached the state's handler (neither turn limit fired).
HandlerRan(s) ==
    LET s1 == CountTurn(s)
    IN s1.turn_count <= MAX_TURNS_PER_CALL
       /\ s1.state_turn_count <= MAX_TURNS_PER_STATE

\* Whether process() left every session field alone but the state and the
\* turn counters.
FactsKept(s0, s1) ==
    [s1 EXCEPT !.state = s0.state,
               !.state_turn_count = s0.state_turn_count,
               !.turn_count = s0.turn_count,
               !.agent_has_responded = s0.agent_has_responded] = s0

Min(a, b) == IF a < b THEN a ELSE b

\* _handle_terminal_response: one scoped reply at most, then the canned script,
\* then the delayed end when the action asked for it.
_handle_terminal_response_every_time(s, action, reply) ==
    [session |-> [s EXCEPT !.terminal_reply_used = TRUE],
     frames |-> (IF reply # <<>> /\ ~match_any_keyword(reply, BOOKING_LANGUAGE)
                 THEN <<"TTSSpeakFrame:scoped">> ELSE <<>>)
                \o <<"TTSSpeakFrame:canned">>,
     schedule_end |-> action.end_call,
     end_now |-> FALSE,
     start_buffer |-> FALSE, appended |-> FALSE]

_handle_terminal_response(s, action, reply) ==
    LET scoped == ~s.terminal_reply_used
        s1 == IF scoped THEN [s EXCEPT !.terminal_reply_used = TRUE] ELSE s
        replyF == IF scoped /\ reply # <<>> /\ ~match_any_keyword(reply, BOOKING_LANGUAGE)
                  THEN <<"TTSSpeakFrame:scoped">> ELSE <<>>
    IN [session |-> s1,
        frames |-> replyF \o <<"TTSSpeakFrame:canned">>,
        schedule_end |-> action.end_call,
        end_now |-> FALSE,
        start_buffer |-> FALSE, appended |-> FALSE]

\* _execute_tool and handle_tool_result, when the action names a tool.
AfterTool(r, result) ==
    IF r.action.call_tool # ""
    THEN handle_tool_result(r.session, r.action.call_tool, result)
    ELSE r.session

\* Whether the tool came back with an error document.
ToolError(a, result) ==
    /\ a.call_tool \in {"book_service", "create_callback", "send_sales_lead_alert"}
    /\ result.error

\* The routing with a return after a tool that changed the state, the buffer
\* not started.
Route_returns_after_tool(a, force_llm, s2, reply) ==
    IF s2.state \in TERMINAL_STATES /\ s2.state \in TERMINAL_SCRIPTS
    THEN _handle_terminal_response(s2, a, reply)
    ELSE IF a.end_call
    THEN IF a.needs_llm \/ force_llm
         THEN [session |-> s2, frames |-> <<"TranscriptionFrame">>,
               schedule_end |-> TRUE, end_now |-> FALSE, start_buffer |-> FALSE,
               appended |-> FALSE]
         ELSE [session |-> s2, frames |-> <<"EndFrame">>,
               schedule_end |-> FALSE, end_now |-> TRUE, start_buffer |-> FALSE,
               appended |-> FALSE]
    ELSE IF force_llm
    THEN [session |-> s2, frames |-> <<>>, schedule_end |-> FALSE,
          end_now |-> FALSE, start_buffer |-> FALSE, appended |-> FALSE]
    ELSE IF a.needs_llm
    THEN [session |-> s2, frames |-> <<"TranscriptionFrame">>,
          schedule_end |-> FALSE, end_now |-> FALSE, start_buffer |-> FALSE,
          appended |-> FALSE]
    ELSE [session |-> s2, frames |-> <<>>, schedule_end |-> FALSE,
          end_now |-> FALSE, start_buffer |-> FALSE, appended |-> TRUE]

\* The routing at the end of _handle_transcription: terminal script, end of
\* call, buffer mode after a tool that changed the state, or the LLM.
Route(a, force_llm, s2, reply) ==
    IF s2.state \in TERMINAL_STATES /\ s2.state \in TERMINAL_SCRIPTS
    THEN _handle_terminal_response(s2, a, reply)
    ELSE IF a.end_call
    THEN IF a.needs_llm \/ force_llm
         THEN [session |-> s2, frames |-> <<"TranscriptionFrame">>,
               schedule_end |-> TRUE, end_now |-> FALSE, start_buffer |-> FALSE,
               appended |-> FALSE]
         ELSE [session |-> s2, frames |-> <<"EndFrame">>,
               schedule_end |-> FALSE, end_now |-> TRUE, start_buffer |-> FALSE,
               appended |-> FALSE]
    ELSE IF force_llm
    THEN [session |-> s2, frames |-> <<>>, schedule_end |-> FALSE,
          end_now |-> FALSE, start_buffer |-> TRUE, appended |-> FALSE]
    ELSE IF a.needs_llm
    THEN [session |-> s2, frames |-> <<"TranscriptionFrame">>,
          schedule_end |-> FALSE, end_now |-> FALSE, start_buffer |-> FALSE,
          appended |-> FALSE]
    ELSE [session |-> s2, frames |-> <<>>, schedule_end |-> FALSE,
          end_now |-> FALSE, start_buffer |-> FALSE, appended |-> TRUE]

\* _handle_transcription outside buffer mode, after process() and the tool:
\* the canned speak first, then the routing.
_handle_transcription(r, s2, reply) ==
    [Route(r.action, r.action.call_tool # "" /\ s2.state # r.session.state, s2, reply)
        EXCEPT !.frames =
            (IF r.action.speak # "" THEN <<"TTSSpeakFrame:speak">> ELSE <<>>) \o @]

\* _flush_buffer after process() on the concatenated fragments: the push.
_flush_buffer(r) ==
    [session |-> r.session,
     frames |-> IF r.action.end_call /\ ~r.action.needs_llm
                THEN <<"EndFrame">> ELSE <<"TranscriptionFrame">>,
     schedule_end |-> r.action.end_call /\ r.action.needs_llm,
     end_now |-> r.action.end_call /\ ~r.action.needs_llm,
     start_buffer |-> FALSE, appended |-> FALSE]

Count911(out) ==
    IF out.session.state = "safety_exit"
       /\ \E i \in 1..Len(out.frames) : out.frames[i] = "TTSSpeakFrame:canned"
    THEN Min(spoken_911 + 1, 2) ELSE spoken_911

\* The effect of a processed turn on the processor's variables: r is what
\* process() did to the session s0, out what the processor did next, fragments
\* the _buffer_texts a flush has joined into text, reply what
\* _generate_scoped_reply returned if it was asked.
Apply(op, s0, text, r, tool, tool_error, out, fragments, reply) ==
    /\ session' = out.session
    /\ llm_busy' =
          (llm_busy \/ \E i \in 1..Len(out.frames) : out.frames[i] = "TranscriptionFrame")
    /\ extraction_tasks' = IF out.session.state \in EXTRACTION_STATES
                           THEN extraction_tasks + 1 ELSE extraction_tasks
    /\ end_tasks' = IF out.schedule_end THEN end_tasks + 1 ELSE end_tasks
    /\ ended' = (ended \/ out.end_now)
    /\ spoken_911' = Count911(out)
    /\ scoped_replies' =
          IF /\ \E i \in 1..Len(out.frames) : out.frames[i] = "TTSSpeakFrame:scoped"
             /\ Len(scoped_replies) < 2
          THEN Append(scoped_replies, reply) ELSE scoped_replies
    /\ last' = [op |-> op, emergency |-> detect_safety_emergency(text),
                processed |-> TRUE, pre |-> Pre(s0),
                action |-> r.action, mid_state |-> r.session.state,
                post_state |-> out.session.state, handler_ran |-> HandlerRan(s0),
                facts_kept |-> FactsKept(s0, r.session),
                tool |-> tool, tool_error |-> tool_error,
                frames |-> out.frames, end_scheduled |-> out.schedule_end,
                fragments |-> fragments, buffered |-> out.start_buffer,
                appended |-> out.appended,
                pushed |-> IF /\ op = "flush"
                              /\ \E i \in 1..Len(out.frames) :
                                    out.frames[i] = "TranscriptionFrame"
                           THEN text ELSE <<>>]

\* A TranscriptionFrame arrives outside buffer mode: process(), the tool the
\* action names, the tool-result handler, then the routing.
TranscriptionOf(texts, max_turns) ==
    /\ ~ended
    /\ ~buffer_mode
    /\ session.turn_count < max_turns
    /\ extraction_tasks < MaxExtractionTasks
    /\ end_tasks < MaxEndTasks
    /\ \E text \in texts :
       \E s0 \in {_capture_agent_responses(session)} :
       \E r \in {process(s0, text)} :
       \E result \in (IF r.action.call_tool # ""
                      THEN ToolResults(r.action.call_tool) ELSE {NoResult}) :
       \E s2 \in {AfterTool(r, result)} :
       \E reply \in (IF s2.state \in TERMINAL_SCRIPTS THEN ScopedReplies ELSE {<<>>}) :
       \E out \in {_handle_transcription(r, s2, reply)} :
          /\ Apply("transcription", s0, text, r, r.action.call_tool,
                   ToolError(r.action, result), out, <<>>, reply)
          /\ agent_pending' = FALSE
          /\ buffer_mode' = out.start_buffer
          /\ buffer_texts' = IF out.start_buffer THEN <<text>> ELSE <<>>
          /\ conversation_len' = Min(conversation_len + 1, 2)

\* A frame in buffer mode that is counted as a turn of its own.
BufferedTranscriptionOf_counts_turn(texts) ==
    /\ ~ended
    /\ buffer_mode
    /\ Len(buffer_texts) < MaxBufferFragments
    /\ session.turn_count < MAX_TURNS_PER_CALL
    /\ \E text \in texts :
         /\ session' = [_capture_agent_responses(session) EXCEPT !.turn_count = @ + 1]
         /\ agent_pending' = FALSE
         /\ buffer_texts' = Append(buffer_texts, text)
         /\ conversation_len' = Min(conversation_len + 1, 2)
    /\ UNCHANGED <<buffer_mode, llm_busy, extraction_tasks, end_tasks, ended,
                   spoken_911, scoped_replies, last, said, beside>>

\* A TranscriptionFrame arrives in buffer mode and the debounce timer is reset.
BufferedTranscriptionOf(texts) ==
    /\ ~ended
    /\ buffer_mode
    /\ Len(buffer_texts) < MaxBufferFragments
    /\ \E text \in texts :
         /\ session' = _capture_agent_responses(session)
         /\ agent_pending' = FALSE
         /\ buffer_texts' = Append(buffer_texts, text)
         /\ conversation_len' = Min(conversation_len + 1, 2)
    /\ UNCHANGED <<buffer_mode, llm_busy, extraction_tasks, end_tasks, ended,
                   spoken_911, scoped_replies, last, said, beside>>

\* A TranscriptionFrame arrives in buffer mode after BUFFER_MAX_S: it is
\* appended and the buffer is flushed at once.
BufferedTranscriptionMaxOf(texts, max_turns) ==
    /\ ~ended
    /\ buffer_mode
    /\ Len(buffer_texts) < MaxBufferFragments
    /\ session.turn_count < max_turns
    /\ extraction_tasks < MaxExtractionTasks
    /\ end_tasks < MaxEndTasks
    /\ \E text \in texts :
       \E s0 \in {_capture_agent_responses(session)} :
       \E combined_text \in {Join(Append(buffer_texts, text))} :
       \E r \in {process(s0, combined_text)} :
       \E out \in {_flush_buffer(r)} :
          /\ Apply("flush", s0, combined_text, r, "", FALSE, out,
                   Append(buffer_texts, text), <<>>)
          /\ agent_pending' = FALSE
          /\ conversation_len' = Min(conversation_len + 1, 2)
    /\ buffer_mode' = FALSE
    /\ buffer_texts' = <<>>

\* The debounce timer expires and the buffer is flushed.
FlushBufferOf(max_turns) ==
    /\ buffer_mode
    /\ session.turn_count < max_turns
    /\ extraction_tasks < MaxExtractionTasks
    /\ end_tasks < MaxEndTasks
    /\ \E combined_text \in {Join(buffer_texts)} :
       \E r \in {process(session, combined_text)} :
       \E out \in {_flush_buffer(r)} :
          Apply("flush", session, combined_text, r, "", FALSE, out, buffer_texts, <<>>)
    /\ buffer_mode' = FALSE
    /\ buffer_texts' = <<>>
    /\ UNCHANGED <<conversation_len, agent_pending>>

\* The LLM answers a pushed TranscriptionFrame: the assistant aggregator appends
\* the reply to the context.
AgentResponds ==
    /\ llm_busy
    /\ llm_busy' = FALSE
    /\ agent_pending' = TRUE
    /\ UNCHANGED <<session, buffer_mode, buffer_texts, conversation_len,
                   extraction_tasks, end_tasks, ended, spoken_911, scoped_replies, last, said, beside>>

\* The LLM fails or is interrupted: no assistant message reaches the context.
LLMNoReply ==
    /\ llm_busy
    /\ llm_busy' = FALSE
    /\ UNCHANGED <<session, buffer_mode, buffer_texts, conversation_len,
                   agent_pending, extraction_tasks, end_tasks, ended, spoken_911, scoped_replies,
                   last, said, beside>>

_run_extraction_every_field(s, extracted) ==
    IF conversation_len < 2 THEN s
    ELSE [s EXCEPT
             !.problem_description =
                 IF @ = <<>> THEN extracted.problem_description ELSE @,
             !.preferred_time =
                 IF @ = <<>> THEN extracted.preferred_time ELSE @,
             !.equipment_type =
                 IF @ = "" THEN extracted.equipment_type ELSE @,
             !.problem_duration =
                 IF @ = "" THEN extracted.problem_duration ELSE @,
             !.customer_name =
                 IF @ = "" THEN extracted.customer_name ELSE @,
             !.service_address =
                 IF @ = "" THEN extracted.service_address ELSE @,
             !.zip_code =
                 IF extracted.zip_code # <<>> THEN extracted.zip_code ELSE @]

\* _run_extraction: only the extraction-owned fields, and only when empty.
_run_extraction(s, extracted) ==
    IF conversation_len < 2 THEN s
    ELSE [s EXCEPT
             !.problem_description =
                 IF @ = <<>> THEN extracted.problem_description ELSE @,
             !.preferred_time =
                 IF @ = <<>> THEN extracted.preferred_time ELSE @,
             !.equipment_type =
                 IF @ = "" THEN extracted.equipment_type ELSE @,
             !.problem_duration =
                 IF @ = "" THEN extracted.problem_duration ELSE @]

\* A background extraction task completes.
ExtractionCompletesOf(outputs) ==
    /\ extraction_tasks > 0
    /\ extraction_tasks' = extraction_tasks - 1
    /\ \E extracted \in outputs :
         session' = _run_extraction(session, extracted)
    /\ UNCHANGED <<buffer_mode, buffer_texts, conversation_len, agent_pending,
                   llm_busy, end_tasks, ended, spoken_911, scoped_replies, last, said, beside>>

\* _delayed_end_call: the sleep is over and the EndFrame is pushed.
DelayedEndFires ==
    /\ end_tasks > 0
    /\ end_tasks' = end_tasks - 1
    /\ ended' = TRUE
    /\ UNCHANGED <<session, buffer_mode, buffer_texts, conversation_len,
                   agent_pending, llm_busy, extraction_tasks, spoken_911, scoped_replies, last, said, beside>>

\* The caller hangs up: the transport queues an EndFrame.
Disconnect ==
    /\ ~ended
    /\ ended' = TRUE
    /\ UNCHANGED <<session, buffer_mode, buffer_texts, conversation_len,
                   agent_pending, llm_busy, extraction_tasks, end_tasks,
                   spoken_911, scoped_replies, last, said, beside>>

ExtractionCompletes == ExtractionCompletesOf(ExtractorOutputs)

Transcription ==
    TranscriptionOf(Utterances, MaxTurns) /\ UNCHANGED <<said, beside>>

BufferedTranscription == BufferedTranscriptionOf(Utterances)

BufferedTranscriptionMax ==
    BufferedTranscriptionMaxOf(Utterances, MaxTurns) /\ UNCHANGED <<said, beside>>

FlushBuffer ==
    FlushBufferOf(MaxTurns) /\ UNCHANGED <<said, beside>>

Next ==
    \/ Transcription
    \/ BufferedTranscription
    \/ BufferedTranscriptionMax
    \/ FlushBuffer
    \/ AgentResponds
    \/ LLMNoReply
    \/ ExtractionCompletes
    \/ DelayedEndFires
    \/ Disconnect

Spec == Init /\ [][Next]_vars

\* The same processor on a long call: a caller who says little, so that the
\* per-call turn limit is reached.
LongTranscription ==
    TranscriptionOf(LongUtterances, MaxLongTurns) /\ UNCHANGED <<said, beside>>

LongBufferedTranscription == BufferedTranscriptionOf(LongUtterances)

LongBufferedTranscriptionMax ==
    BufferedTranscriptionMaxOf(LongUtterances, MaxLongTurns) /\ UNCHANGED <<said, beside>>

LongFlushBuffer ==
    FlushBufferOf(MaxLongTurns) /\ UNCHANGED <<said, beside>>

NextLong ==
    \/ LongTranscription
    \/ LongBufferedTranscription
    \/ LongBufferedTranscriptionMax
    \/ LongFlushBuffer
    \/ AgentResponds
    \/ LLMNoReply
    \/ ExtractionCompletes
    \/ DelayedEndFires
    \/ Disconnect

SpecLong == Init /\ [][NextLong]_vars

\* The same processor on a long call of a known caller who dawdles and then
\* books: the per-call turn limit is reached late in the booking flow.
DawdleUtterances ==
    {<<W("my"), W("ac"), W("is"), W("blowing"), W("warm")>>,
     <<W("no")>>,
     <<W("tomorrow"), W("morning")>>,
     <<W("yes"), W("book"), W("it")>>}

DawdleTranscription ==
    TranscriptionOf(DawdleUtterances, MaxLongTurns) /\ UNCHANGED <<said, beside>>

DawdleBufferedTranscription == BufferedTranscriptionOf(DawdleUtterances)

DawdleBufferedTranscriptionMax ==
    BufferedTranscriptionMaxOf(DawdleUtterances, MaxLongTurns) /\ UNCHANGED <<said, beside>>

NextDawdle ==
    \/ DawdleTranscription
    \/ DawdleBufferedTranscription
    \/ DawdleBufferedTranscriptionMax
    \/ LongFlushBuffer
    \/ AgentResponds
    \/ LLMNoReply
    \/ ExtractionCompletes
    \/ DelayedEndFires
    \/ Disconnect

SpecDawdle == Init /\ [][NextDawdle]_vars

TypeOK ==
    /\ session.state \in State
    /\ session.turn_count \in 0..MaxLongTurns
    /\ session.state_turn_count \in 0..MAX_TURNS_PER_STATE
    /\ buffer_mode \in BOOLEAN
    /\ Len(buffer_texts) <= MaxBufferFragments

\* ------------------------------------------------- the scripted happy path
\* The caller of the happy-path scenario: an unknown caller who denies any
\* hazard, gives an in-area ZIP, states name, problem and address, gives a
\* time and says yes.
CallerScript ==
    <<<<W("my"), W("ac"), W("is"), W("blowing"), W("warm")>>,
      <<W("no")>>,
      <<N(<<7, 8, 7, 4, 5>>)>>,
      <<W("it's"), W("jonas"), W("ac"), W("not"), W("cooling"),
        N(<<4, 2, 1, 0>>), W("south"), W("lamar"), W("blvd")>>,
      <<W("tomorrow"), W("morning")>>,
      <<W("yes"), W("book"), W("it")>>>>

\* What the extractor returns for that caller.
HappyExtract ==
    [customer_name |-> "Jonas",
     problem_description |-> <<W("ac"), W("not"), W("cooling")>>,
     service_address |-> "4210 South Lamar Blvd", zip_code |-> <<7, 8, 7, 4, 5>>,
     preferred_time |-> <<>>, equipment_type |-> "AC", problem_duration |-> ""]

\* The caller speaks when the agent has answered and nothing is in flight.
Quiet == ~llm_busy /\ ~buffer_mode /\ extraction_tasks = 0

\* The backend of the scenario: the caller is unknown, the booking succeeds.
HappyBackend ==
    /\ last'.tool = "lookup_caller" => ~session'.caller_known
    /\ last'.tool = "book_service" => ~last'.tool_error

\* The caller says the next line of the script.
HappySay ==
    /\ Quiet
    /\ said < Len(CallerScript)
    /\ TranscriptionOf({CallerScript[said + 1]}, MaxTurns)
    /\ HappyBackend
    /\ said' = said + 1
    /\ UNCHANGED beside

\* The caller says the line again.
HappyRepeat ==
    /\ Quiet
    /\ said > 0
    /\ TranscriptionOf({CallerScript[said]}, MaxTurns)
    /\ HappyBackend
    /\ UNCHANGED <<said, beside>>

HappyExtraction == ExtractionCompletesOf({HappyExtract})

NextHappy ==
    \/ HappySay
    \/ HappyRepeat
    \/ FlushBuffer
    \/ AgentResponds
    \/ HappyExtraction
    \/ DelayedEndFires

SpecHappy == Init /\ [][NextHappy]_vars

\* The script is over and nothing is in flight.
HappyDone == said = Len(CallerScript) /\ Quiet /\ ~ended

\* ------------------------------------------------ the breaker on its own
\* The settings a breaker is constructed with.
Thresholds == {1, 2, 3}

Cooldowns == {0, 2, 3}

InitBreaker ==
    /\ ProcessorInit
    /\ \E th \in Thresholds : \E cd \in Cooldowns : breaker = CircuitBreaker(th, cd)
    /\ now = 1
    /\ breaker_hist = NoBreakerHist
    /\ v2 = NoCall
    /\ tts = NoUtterance
    /\ AfterInit

\* In the caller's terms: the run of failures has reached the threshold and a
\* cooldown has passed since the breaker opened or was last re-opened.
HalfOpen ==
    /\ breaker_hist.streak >= breaker.failure_threshold
    /\ now - breaker_hist.opened >= breaker.cooldown_seconds
    /\ breaker_hist.reopened # None =>
           now - breaker_hist.reopened >= breaker.cooldown_seconds

\* A caller asks should_try().
ShouldTry ==
    /\ breaker_hist' = [breaker_hist EXCEPT !.op = "should_try",
                                            !.answer = should_try(breaker, now),
                                            !.asked = now]
    /\ UNCHANGED <<breaker, now, v2, tts, processor_vars, after>>

\* A caller records a failure.
RecordFailure ==
    /\ breaker_hist.streak < MaxStreak
    /\ breaker' = record_failure(breaker, now)
    /\ breaker_hist' =
          [breaker_hist EXCEPT
              !.op = "record_failure",
              !.streak = @ + 1,
              !.opened = IF breaker_hist.streak + 1 = breaker.failure_threshold
                         THEN now ELSE @,
              !.reopened = IF HalfOpen THEN now ELSE @]
    /\ UNCHANGED <<now, v2, tts, processor_vars, after>>

\* A caller records a success.
RecordSuccess ==
    /\ breaker' = record_success(breaker)
    /\ breaker_hist' = [breaker_hist EXCEPT !.op = "record_success", !.streak = 0,
                                            !.opened = None, !.reopened = None]
    /\ UNCHANGED <<now, v2, tts, processor_vars, after>>

\* Time passes.
Tick ==
    /\ now < MaxClock
    /\ now' = now + 1
    /\ UNCHANGED <<breaker, breaker_hist, v2, tts, processor_vars, after>>

NextBreaker ==
    \/ ShouldTry
    \/ RecordFailure
    \/ RecordSuccess
    \/ Tick

SpecBreaker == InitBreaker /\ [][NextBreaker]_vars

\* ----------------------------------------------- the backend client alone
\* V2Client.__init__: its breaker has the defaults, 3 failures and 60 seconds.
InitBackend == ProcessorInit /\ BesideInit

\* One call of one method of V2Client.
BackendCall ==
    \E tool \in V2_METHODS :
    \E response \in IF v2.streak < MaxBackendStreak THEN Responses ELSE {"ok"} :
    \E r \in {V2Call(breaker, now, tool, response)} :
    \E failed \in {r.sent /\ ~r.doc.value} :
    \E n \in {IF failed THEN v2.streak + 1 ELSE IF r.sent THEN 0 ELSE v2.streak} :
        /\ breaker' = r.circuit
        /\ v2' = [op |-> "call", tool |-> tool, response |-> response, at |-> now,
                  sent |-> r.sent, raised |-> r.raised, failures |-> r.failures,
                  doc |-> r.doc,
                  streak_before |-> v2.streak, third_before |-> v2.third,
                  streak |-> n,
                  third |-> IF n = 0 THEN None
                            ELSE IF failed /\ n = 3 THEN now ELSE v2.third]
        /\ UNCHANGED <<now, breaker_hist, tts, processor_vars, after>>

\* Time passes between two calls.
BackendTick ==
    /\ now + BackendPace <= MaxBackendClock
    /\ now' = now + BackendPace
    /\ UNCHANGED <<breaker, breaker_hist, v2, tts, processor_vars, after>>

NextBackend ==
    \/ BackendCall
    \/ BackendTick

SpecBackend == InitBackend /\ [][NextBackend]_vars

\* ------------------------------------------------- the fallback TTS alone
\* FallbackTTSService.__init__ with the settings of its breaker.
InitTTS ==
    /\ ProcessorInit
    /\ breaker = CircuitBreaker(2, 2)
    /\ now = 1
    /\ breaker_hist = NoBreakerHist
    /\ v2 = NoCall
    /\ tts = NoUtterance
    /\ AfterInit

\* The run of recorded failures after a step of run_tts.
StreakAfter(u) ==
    [u EXCEPT !.streak = IF u.failures > tts.failures THEN @ + 1
                         ELSE IF u.successes > tts.successes THEN 0 ELSE @,
              !.opened = IF u.successes > tts.successes THEN None
                         ELSE IF /\ u.failures > tts.failures
                                 /\ tts.streak + 1 = breaker.failure_threshold
                         THEN now ELSE @]

\* The pipeline calls run_tts for the next utterance.
RunTTS ==
    /\ tts.phase \in {"idle", "done"}
    /\ breaker._consecutive_failures < MaxTTSStreak
    /\ \E r \in {run_tts(breaker, now,
                         [tts EXCEPT !.at = now, !.primary = <<>>, !.fallback = <<>>,
                                     !.primary_invoked = FALSE, !.out = <<>>,
                                     !.failures = 0, !.successes = 0,
                                     !.started_before = tts._fallback_started,
                                     !.streak_before = tts.streak,
                                     !.opened_before = tts.opened])} :
           /\ breaker' = r.circuit
           /\ tts' = r.tts
    /\ UNCHANGED <<now, breaker_hist, v2, processor_vars, after>>

\* The primary comes to its next event before it has yielded audio.
PrimaryBeforeAudio ==
    /\ tts.phase = "buffering"
    /\ \E e \in IF Len(tts.primary) + 1 < MaxPrimaryEvents
                THEN PrimaryEvents ELSE PrimaryEvents \ {"frame"} :
       \E r \in {_try_primary(breaker, now, tts, e)} :
           /\ breaker' = r.circuit
           /\ tts' = StreakAfter(r.tts)
    /\ UNCHANGED <<now, breaker_hist, v2, processor_vars, after>>

\* The primary comes to its next event after its first audio.
PrimaryAfterAudio ==
    /\ tts.phase = "streaming"
    /\ \E e \in IF Len(tts.primary) + 1 < MaxPrimaryEvents
                THEN PrimaryEvents ELSE {"error", "raise", "end"} :
       \E r \in {_try_primary_rest(breaker, now, tts, e)} :
           /\ breaker' = r.circuit
           /\ tts' = StreakAfter(r.tts)
    /\ UNCHANGED <<now, breaker_hist, v2, processor_vars, after>>

\* The fallback comes to its next event.
FallbackEvent ==
    /\ tts.phase = "fallback"
    /\ \E e \in IF Len(tts.fallback) + 1 < MaxFallbackEvents
                THEN FallbackEvents ELSE {"raise", "end"} :
       \E r \in {_run_fallback(breaker, now, tts, e)} :
           /\ breaker' = r.circuit
           /\ tts' = r.tts
    /\ UNCHANGED <<now, breaker_hist, v2, processor_vars, after>>

\* Time passes between two utterances.
TTSTick ==
    /\ now < MaxTTSClock
    /\ now' = now + 1
    /\ UNCHANGED <<breaker, breaker_hist, v2, tts, processor_vars, after>>

NextTTS ==
    \/ RunTTS
    \/ PrimaryBeforeAudio
    \/ PrimaryAfterAudio
    \/ FallbackEvent
    \/ TTSTick

SpecTTS == InitTTS /\ [][NextTTS]_vars

\* ------------------------------------------- a call and what comes after it
EndTranscription ==
    TranscriptionOf(Utterances, MaxEndTurns) /\ UNCHANGED <<said, beside>>

EndBufferedTranscriptionMax ==
    BufferedTranscriptionMaxOf(Utterances, MaxEndTurns) /\ UNCHANGED <<said, beside>>

EndFlushBuffer ==
    FlushBufferOf(MaxEndTurns) /\ UNCHANGED <<said, beside>>

\* create_pipeline once runner.run(task) has returned: handle_call_ended on the
\* session, any exception of it caught and logged.
HandleCallEnded ==
    /\ ended
    /\ ~post_call.started
    /\ \E env \in Environments :
       \E webhooks \in [Payloads -> PostResponses] :
       \E r \in {handle_call_ended(session, env, webhooks)} :
          post_call' = [started |-> TRUE, configured |-> r.configured,
                        raised |-> r.raised, posts |-> r.posts, dumps |-> r.dumps,
                        final_state |-> session.state,
                        uncaptured |-> agent_pending, tasks |-> extraction_tasks,
                        sent |-> NoSend]
    /\ UNCHANGED <<processor_vars, breaker, now, breaker_hist, v2, tts, chunking>>

NextEnd ==
    \/ EndTranscription
    \/ BufferedTranscription
    \/ EndBufferedTranscriptionMax
    \/ EndFlushBuffer
    \/ AgentResponds
    \/ LLMNoReply
    \/ ExtractionCompletes
    \/ DelayedEndFires
    \/ Disconnect
    \/ HandleCallEnded

SpecEnd == Init /\ [][NextEnd]_vars

\* ---------------------------------------------- the dashboard client alone
\* A client constructed with the arguments its __init__ takes.
InitDashboard ==
    /\ ~DashboardClient({"webhook_url", "webhook_secret"}).raised
    /\ ProcessorInit
    /\ BesideInit

\* One send of one payload: the POSTs it made join those made before.
Send(payload, r, responses) ==
    /\ Len(post_call.posts) + Len(r.posts) <= MaxPosts
    /\ post_call' = [post_call EXCEPT
                        !.posts = @ \o r.posts,
                        !.sent = [payload |-> payload, responses |-> responses,
                                  posts |-> r.posts, success |-> r.success,
                                  raised |-> r.raised]]
    /\ UNCHANGED <<processor_vars, breaker, now, breaker_hist, v2, tts, chunking>>

SendJob ==
    \E responses \in [1..2 -> PostResponses] :
        Send("job", send_job(responses), responses)

SendCall ==
    \E responses \in [1..2 -> PostResponses] :
        Send("call", send_call(responses), responses)

SendEmergencyAlert ==
    \E responses \in [1..2 -> PostResponses] :
        Send("alert", send_emergency_alert(responses), responses)

NextDashboard ==
    \/ SendJob
    \/ SendCall
    \/ SendEmergencyAlert

SpecDashboard == InitDashboard /\ [][NextDashboard]_vars

\* ------------------------------------------------ transcript chunking alone
\* to_timestamped_dump before its loop: the header fields and no entry.
InitChunk ==
    /\ ProcessorInit
    /\ breaker = CircuitBreaker(3, 60)
    /\ now = 1
    /\ breaker_hist = NoBreakerHist
    /\ v2 = NoCall
    /\ tts = NoUtterance
    /\ post_call = NoPostCall
    /\ \E header \in HeaderSizes :
          chunking = [NoChunking EXCEPT !.dump.header = header]

\* to_timestamped_dump appends one entry of the log, its timestamp after
\* those before it.
AppendEntry ==
    /\ ~chunking.done
    /\ Len(chunking.dump.entries) < MaxEntries
    /\ \E content \in ContentChars :
          chunking' = [chunking EXCEPT
                         !.dump.entries =
                             Append(@, [t |-> Len(@) + 1, content |-> content])]
    /\ UNCHANGED <<processor_vars, breaker, now, breaker_hist, v2, tts, post_call>>

\* The dump is chunked.
ChunkTranscriptDump ==
    /\ ~chunking.done
    /\ \E max_bytes \in MaxBytesChoices :
          chunking' = [chunking EXCEPT
                         !.max_bytes = max_bytes,
                         !.chunks = chunk_transcript_dump(chunking.dump, max_bytes),
                         !.done = TRUE]
    /\ UNCHANGED <<processor_vars, breaker, now, breaker_hist, v2, tts, post_call>>

NextChunk ==
    \/ AppendEntry
    \/ ChunkTranscriptDump

SpecChunk == InitChunk /\ [][NextChunk]_vars

\* ------------------------------------------------------------- properties
\* The counters process() works with on the turn recorded in last.
TurnCountOfLast == last.pre.turn_count + 1

StateTurnCountOfLast ==
    last.pre.state_turn_count + (IF last.pre.agent_has_responded THEN 1 ELSE 0)

GlobalLimitAction ==
    Action("I apologize, but let me have someone from the team call you back to help you out.",
           "create_callback", TRUE, FALSE)

\* C1: every change of session.state, by process() or by a tool-result
\* handler, is an edge of TRANSITIONS.
C1_EveryChangeIsAnEdge ==
    last.processed =>
        /\ last.mid_state # last.pre.state =>
               last.mid_state \in TRANSITIONS[last.pre.state]
        /\ last.post_state # last.mid_state =>
               last.post_state \in TRANSITIONS[last.mid_state]

C4_EndCallOrigin ==
    /\ (last.processed /\ last.action.end_call) =>
           \/ last.pre.state \in TERMINAL_STATES /\ last.handler_ran
           \/ TurnCountOfLast > MAX_TURNS_PER_CALL
    /\ \A st \in ACTION_STATES : \A text \in Utterances :
           ~Dispatch([session EXCEPT !.state = st], text).action.end_call

\* C4 witness: end_call returned by the handler of a terminal state.
C4_EndCallByTerminalHandler ==
    /\ last.processed
    /\ last.action.end_call
    /\ last.pre.state \in TERMINAL_STATES
    /\ last.handler_ran
    /\ last.end_scheduled

\* C5: the handler of a decision state never returns a tool, and the handler
\* of an action state always returns one.
C5_ToolsOnlyFromActionStates ==
    (last.processed /\ last.handler_ran) =>
        /\ last.pre.state \in
               {"welcome", "non_service", "follow_up", "manage_booking", "safety",
                "service_area", "discovery", "urgency", "pre_confirm"}
             => last.action.call_tool = ""
        /\ last.pre.state \in ACTION_STATES => last.action.call_tool # ""

\* C6: an emergency utterance handled in SAFETY enters SAFETY_EXIT, the 911
\* script has been spoken exactly once, and the end of the call is scheduled
\* by that same utterance.
C6_SafetyExitEndsTheCall ==
    (last.processed /\ last.pre.state = "safety" /\ last.emergency
     /\ last.handler_ran) =>
        /\ last.post_state = "safety_exit"
        /\ spoken_911 = 1
        /\ last.end_scheduled

\* C7: every process() call made in SAFETY on a text with a safety keyword and
\* no retraction leaves the session in SAFETY_EXIT.
C7_EmergencyAlwaysExits ==
    (last.processed /\ last.pre.state = "safety" /\ last.emergency) =>
        last.mid_state = "safety_exit"

\* C8: booking_confirmed implies booking_attempted.
C8_ConfirmedImpliesAttempted ==
    session.booking_confirmed => session.booking_attempted

\* C8 witness: a confirmed booking.
C8_BookingConfirmed ==
    /\ session.booking_confirmed
    /\ session.state = "confirm"
    /\ last.tool = "book_service"

\* C9: when the unknown caller has gone through the script and the backend
\* has booked, the session is in CONFIRM with booking_confirmed.
C9_HappyPathBooks ==
    HappyDone => (session.state = "confirm" /\ session.booking_confirmed)

\* C10: a create_callback result with an error adds one to callback_attempts,
\* and after two failed attempts the next process() call returns end_call and
\* does not request create_callback again.
C10_CallbackGivesUpAfterTwo ==
    last.processed =>
        /\ (last.tool = "create_callback" /\ last.tool_error) =>
               session.callback_attempts = last.pre.callback_attempts + 1
        /\ last.pre.callback_attempts >= 2 =>
               /\ last.action.end_call
               /\ last.action.call_tool # "create_callback"

\* C11: after the lookup_caller result handler the session is in FOLLOW_UP
\* when the intent is follow_up, in MANAGE_BOOKING when the intent is
\* manage_booking and the result reports an upcoming appointment, and in
\* SAFETY otherwise, whether the caller was found or not.
C11_LookupRouting ==
    (last.processed /\ last.tool = "lookup_caller") =>
        /\ last.mid_state = "lookup"
        /\ last.post_state =
              IF session.caller_intent = "follow_up" THEN "follow_up"
              ELSE IF session.caller_intent = "manage_booking" /\ session.has_appointment
              THEN "manage_booking"
              ELSE "safety"

\* C11 witness: a caller who wants to manage a booking and has none is sent
\* to SAFETY.
C11_ManageWithoutAppointment ==
    /\ last.processed
    /\ last.tool = "lookup_caller"
    /\ session.caller_intent = "manage_booking"
    /\ ~session.has_appointment
    /\ session.state = "safety"

\* C12: should_try() answers false exactly when the failures recorded in a
\* row have reached the threshold and less than the cooldown has passed since
\* the run reached it; a recorded success clears the count and closes the
\* breaker.
C12_BreakerPositions ==
    /\ should_try(breaker, now) =
          ~(/\ breaker_hist.streak >= breaker.failure_threshold
            /\ now - breaker_hist.opened < breaker.cooldown_seconds)
    /\ breaker_hist.op = "should_try" =>
          breaker_hist.answer =
              ~(/\ breaker_hist.streak >= breaker.failure_threshold
                /\ breaker_hist.asked - breaker_hist.opened < breaker.cooldown_seconds)
    /\ breaker_hist.op = "record_success" =>
          /\ breaker._consecutive_failures = 0
          /\ breaker._opened_at = None
          /\ should_try(breaker, now)

\* C12 witness: should_try() is asked exactly one cooldown after the breaker
\* opened on more failures than the threshold, and answers true.
C12_ProbeAtCooldown ==
    /\ breaker_hist.op = "should_try"
    /\ breaker_hist.streak > breaker.failure_threshold
    /\ breaker.cooldown_seconds > 0
    /\ breaker_hist.asked - breaker_hist.opened = breaker.cooldown_seconds
    /\ breaker_hist.answer

\* C13: after a failure recorded on a half-open breaker, should_try() answers
\* false until a full cooldown has passed since that failure.
C13_FailedProbeReopens ==
    (/\ breaker_hist.reopened # None
     /\ now - breaker_hist.reopened < breaker.cooldown_seconds)
        => ~should_try(breaker, now)

\* C14: no method of the backend client raises; a call that ends in an
\* exception or a non-2xx response records one failure on the breaker and
\* returns the tool's failure document; after three failed calls in a row, for
\* the 60 seconds the breaker is open, a call returns the failure document and
\* sends no request.
C14_BackendFailsSoftly ==
    v2.op = "call" =>
        /\ ~v2.raised
        /\ (v2.sent /\ v2.response # "ok") =>
              /\ v2.failures = 1
              /\ v2.doc.flag = FlagOf(v2.tool) /\ ~v2.doc.value
        /\ (v2.streak_before >= 3 /\ v2.at - v2.third_before < 60) =>
              /\ ~v2.sent
              /\ v2.doc.flag = FlagOf(v2.tool) /\ ~v2.doc.value

\* The primary was asked and, before any audio, yielded an ErrorFrame, raised,
\* ran out of time or ended.
PrimaryFailedFirst ==
    /\ tts.primary_invoked
    /\ tts.primary # <<>>
    /\ tts.primary[Len(tts.primary)] \in {"error", "raise", "slow", "end"}
    /\ \A i \in 1..(Len(tts.primary) - 1) : tts.primary[i] = "frame"

\* The primary was asked and yielded audio before any error or timeout.
PrimaryAudioFirst ==
    /\ tts.primary_invoked
    /\ \E i \in 1..Len(tts.primary) :
          /\ tts.primary[i] = "audio"
          /\ \A j \in 1..(i - 1) : tts.primary[j] = "frame"

\* The frames run_tts has yielded are the fallback's so far, in its order, the
\* wrapper's ErrorFrame standing for a fallback that raised.
OutIsFallback ==
    /\ Len(tts.out) = Cardinality({i \in 1..Len(tts.fallback) : tts.fallback[i] # "end"})
    /\ \A k \in 1..Len(tts.out) :
          tts.out[k] = IF tts.fallback[k] = "raise" THEN BothFailed
                       ELSE FrameOf("fallback", k)

\* C15: when the primary yields an error frame, raises, times out or ends
\* before any audio, none of its buffered frames is emitted, one failure is
\* recorded on the breaker for the utterance, and the fallback's frames are
\* streamed instead; the output of an utterance never has frames of both.
C15_FailoverBeforeAudio ==
    /\ PrimaryFailedFirst =>
          /\ \A k \in 1..Len(tts.out) : tts.out[k].src # "primary"
          /\ tts.failures = 1 /\ tts.successes = 0
          /\ breaker._consecutive_failures >= 1
          /\ tts._fallback_started
          /\ OutIsFallback
    /\ ~(\E k, l \in 1..Len(tts.out) :
            tts.out[k].src = "primary" /\ tts.out[l].src = "fallback")

\* C15 witness: the primary yielded two frames and then an ErrorFrame, and
\* the fallback's two frames went out.
C15_ErrorAfterBufferedFrames ==
    /\ tts.phase = "done"
    /\ tts.primary = <<"frame", "frame", "error">>
    /\ tts.fallback = <<"audio", "audio", "end">>
    /\ Len(tts.out) = 2

\* C16: when the primary yields audio before any error or timeout, the
\* utterance emits the primary's frames in the primary's order and no other
\* frame, does not start the fallback, and records a success on the breaker.
C16_PrimaryStreamsThrough ==
    (PrimaryAudioFirst /\ tts.phase = "done") =>
        /\ \A k \in 1..Len(tts.out) : tts.out[k].src = "primary"
        /\ \A k, l \in 1..Len(tts.out) : k < l => tts.out[k].i < tts.out[l].i
        /\ {tts.out[k].i : k \in 1..Len(tts.out)} =
              {i \in 1..Len(tts.primary) : tts.primary[i] \in {"frame", "audio"}}
        /\ tts._fallback_started = tts.started_before
        /\ tts.failures = 0
        /\ tts.successes = 1

\* C17: after failure_threshold primary failures in a row, until the cooldown
\* has passed since the breaker opened, an utterance does not ask the primary
\* and streams the fallback's frames.
C17_OpenSkipsPrimary ==
    (/\ tts.phase # "idle"
     /\ tts.streak_before >= breaker.failure_threshold
     /\ tts.at - tts.opened_before < breaker.cooldown_seconds)
        => /\ ~tts.primary_invoked
           /\ tts.primary = <<>>
           /\ tts.failures = 0 /\ tts.successes = 0
           /\ tts._fallback_started
           /\ OutIsFallback

\* C17 witness: the breaker opened on the utterance before, and this one, a
\* second later, streamed two frames of the fallback.
C17_SkippedWhileOpen ==
    /\ tts.phase = "done"
    /\ tts.streak_before = breaker.failure_threshold
    /\ tts.at - tts.opened_before = 1
    /\ ~tts.primary_invoked
    /\ Len(tts.out) = 2

\* C18: a tool call that changes the state puts the processor in buffer
\* mode; no TranscriptionFrame goes downstream for the text of that turn nor
\* for a fragment that arrives while buffering; the flush pushes one
\* TranscriptionFrame and nothing else, its text the fragments joined in the
\* order they arrived.
C18_PostToolDebounce ==
    /\ (last.op = "transcription" /\ last.tool # "" /\ last.post_state # last.mid_state)
          => /\ buffer_mode
             /\ \A i \in 1..Len(last.frames) : last.frames[i] # "TranscriptionFrame"
    /\ buffer_mode =>
          /\ last.op = "transcription"
          /\ buffer_texts # <<>>
          /\ \A i \in 1..Len(last.frames) : last.frames[i] # "TranscriptionFrame"
    /\ last.op = "flush" =>
          /\ last.frames = <<"TranscriptionFrame">>
          /\ last.fragments # <<>>
          /\ Len(last.pushed) = Len(last.fragments[1]) + Len(Join(Tail(last.fragments)))
          /\ \A k \in 1..Len(last.fragments) :
                \E at \in 0..Len(last.pushed) :
                    /\ at = Len(Join(SubSeq(last.fragments, 1, k - 1)))
                    /\ SubSeq(last.pushed, at + 1, at + Len(last.fragments[k]))
                          = last.fragments[k]

\* C19: in the terminal states that have a canned script at most one scoped
\* LLM reply is spoken in the whole call, terminal_reply_used being set from
\* the first try on, and no scoped reply with booking language is spoken.
C19_OneScopedReply ==
    /\ Len(scoped_replies) <= 1
    /\ scoped_replies # <<>> => session.terminal_reply_used
    /\ \A k \in 1..Len(scoped_replies) :
          \A i \in 1..Len(scoped_replies[k]) :
              /\ scoped_replies[k][i].word \notin
                    {"appointment", "schedule", "book", "available", "slot", "open"}
              /\ ~(/\ i < Len(scoped_replies[k])
                   /\ scoped_replies[k][i].word = "tech"
                   /\ scoped_replies[k][i + 1].word = "out")
    /\ (\E i \in 1..Len(last.frames) : last.frames[i] = "TTSSpeakFrame:scoped") =>
          /\ last.op = "transcription"
          /\ last.post_state \in TERMINAL_SCRIPTS

\* C19 witness: a scoped reply was spoken on an earlier turn, and the caller
\* spoke again in a terminal state with a script and heard the script alone.
C19_SecondTerminalUtterance ==
    /\ Len(scoped_replies) = 1
    /\ last.op = "transcription"
    /\ last.pre.state \in TERMINAL_SCRIPTS
    /\ last.post_state \in TERMINAL_SCRIPTS
    /\ last.frames = <<"TTSSpeakFrame:canned">>

\* C20: a background extraction that completes leaves zip_code as it was, and
\* leaves customer_name and service_address as they were when they were not
\* empty.
C20_ExtractionFirewall ==
    [][extraction_tasks' < extraction_tasks =>
          /\ session'.zip_code = session.zip_code
          /\ session.customer_name # "" =>
                session'.customer_name = session.customer_name
          /\ session.service_address # "" =>
                session'.service_address = session.service_address]_vars

\* C20 witness: the extractor's output with zip 78001 was applied to the
\* session of a caller the lookup knows with zip 78745.
C20_ExtractionOnKnownCaller ==
    /\ session.equipment_type = "AC"
    /\ session.problem_duration = "2 days"
    /\ session.customer_name = "Jonas"
    /\ session.service_address # ""
    /\ session.zip_code = <<7, 8, 7, 4, 5>>

\* C21: the background extractor is the only writer of problem_description,
\* preferred_time, equipment_type and problem_duration: a step that changes
\* one of the four is the completion of an extraction task.
C21_ExtractorOwnsItsFields ==
    [][(\/ session'.problem_description # session.problem_description
        \/ session'.preferred_time # session.preferred_time
        \/ session'.equipment_type # session.equipment_type
        \/ session'.problem_duration # session.problem_duration)
          => extraction_tasks' < extraction_tasks]_vars

\* C22: in a configured post-call run the job POST comes first and the call
\* POST follows it, whatever the webhook answered to the job POST: the call
\* POST is never made before the job POST has completed, and it is made when
\* the job POST failed.
C22_JobThenCall ==
    post_call.started /\ post_call.configured =>
        /\ Len(post_call.posts) >= 2
        /\ post_call.posts[1].payload = "job"
        /\ \A i \in 1..Len(post_call.posts) :
              post_call.posts[i].payload = "call" =>
                  /\ i > 1
                  /\ \A j \in 1..(i - 1) : post_call.posts[j].payload # "alert"
        /\ \E i \in 1..Len(post_call.posts) : post_call.posts[i].payload = "call"

\* C23: a send whose first POST fails (non-2xx or an exception) makes one more
\* POST and no third; a send whose first POST succeeds makes no second; and a
\* send never raises.
C23_RetriedOnce ==
    post_call.sent.payload # "" =>
        /\ ~post_call.sent.raised
        /\ Len(post_call.sent.posts) =
              (IF post_call.sent.responses[1] = "ok" THEN 1 ELSE 2)
        /\ \A i \in 1..Len(post_call.sent.posts) :
              post_call.sent.posts[i] =
                  Post(post_call.sent.payload, post_call.sent.responses[i])

\* C24: the post-call run of a configured call POSTs the emergency alert
\* exactly when the session ended in SAFETY_EXIT, and never twice.
C24_AlertIffSafetyExit ==
    post_call.started =>
        \E n \in {Cardinality({i \in 1..Len(post_call.posts) :
                                  post_call.posts[i].payload = "alert"})} :
            /\ n <= 1
            /\ n = 1 => post_call.final_state = "safety_exit"
            /\ post_call.configured /\ post_call.final_state = "safety_exit" => n = 1

\* C25: every call that has ended has logged its transcript dump exactly once,
\* whatever the configuration and whatever the webhooks answered.
C25_DumpExactlyOnce ==
    post_call.started => post_call.dumps = 1

\* C26: when post-call processing starts, no assistant message of the LLM
\* context is still beyond the capture cursor: the agent's replies, the final
\* one included, are all in the transcript log the payloads are built from.
C26_FlushedBeforePostCall ==
    post_call.started => ~post_call.uncaptured

\* C27: once an EndFrame has gone through the pipeline, no debounce timer
\* flushes the buffer and no delayed-end task pushes its frame.
C27_TimersCancelledAtEnd ==
    [][ended => /\ end_tasks' >= end_tasks
                /\ (buffer_mode => buffer_mode')]_vars

\* C28: an extraction task that completes once post-call processing has
\* started changes no session field that is read for the job and call payloads.
C28_SessionSettledForPostCall ==
    [][post_call.started /\ extraction_tasks' < extraction_tasks =>
          /\ session'.state = session.state
          /\ session'.customer_name = session.customer_name
          /\ session'.service_address = session.service_address
          /\ session'.urgency_tier = session.urgency_tier
          /\ session'.problem_description = session.problem_description
          /\ session'.lead_type = session.lead_type
          /\ session'.booking_confirmed = session.booking_confirmed
          /\ session'.booking_attempted = session.booking_attempted]_vars

\* C29: the entries arrays of the chunks, concatenated in index order, are the
\* entry list of the dump: nothing lost, duplicated or reordered; the chunks
\* are numbered 1..N of N.
C29_ChunksRoundTrip ==
    chunking.done =>
        /\ Reassemble(chunking.chunks) = chunking.dump.entries
        /\ \A i \in 1..Len(chunking.chunks) :
              /\ chunking.chunks[i].index = i
              /\ chunking.chunks[i].total = Len(chunking.chunks)

\* A dump of several entries that went into three chunks or more, one of them
\* with two entries or more.
C29_SeveralChunks ==
    /\ chunking.done
    /\ Len(chunking.chunks) >= 3
    /\ \E i \in 1..Len(chunking.chunks) : Len(chunking.chunks[i].entries) >= 2

Pushes(frames, f) == Cardinality({i \in 1..Len(frames) : frames[i] = f})

\* The turn that was last processed ended the call, or spoke a canned
\* terminal script.
EndedOrCanned(l) ==
    \/ Pushes(l.frames, "EndFrame") > 0
    \/ l.end_scheduled
    \/ l.op = "transcription" /\ l.post_state \in TERMINAL_STATES \cap TERMINAL_SCRIPTS

C32_EveryFrameIsATurn ==
    [][/\ (buffer_mode /\ Len(buffer_texts') > Len(buffer_texts)) =>
              session'.turn_count = session.turn_count + 1
       /\ (buffer_mode /\ ~buffer_mode' /\ last'.op = "flush") =>
              session'.turn_count = session.turn_count
                  + (IF Len(last'.fragments) > Len(buffer_texts) THEN 1 ELSE 0)
       /\ (~buffer_mode /\ session'.turn_count # session.turn_count) =>
              session'.turn_count = session.turn_count + 1
      ]_vars

\* C32 amended: outside buffer mode every frame is a turn of its own; a frame
\* that is appended to the buffer is no turn; and every flush of the buffer,
\* by the timer or by the frame that arrives after BUFFER_MAX_S, is one turn
\* on the joined text.
C32_TurnsAreFramesOutsideTheBuffer ==
    [][/\ (buffer_mode /\ buffer_mode') =>
              session'.turn_count = session.turn_count
       /\ (buffer_mode /\ ~buffer_mode') =>
              /\ session'.turn_count = session.turn_count + 1
              /\ last'.op = "flush"
              /\ last'.pre.turn_count = session.turn_count
       /\ (~buffer_mode /\ last' # last) =>
              /\ last'.op = "transcription"
              /\ session'.turn_count = session.turn_count + 1
       /\ last' = last => session'.turn_count = session.turn_count
      ]_vars

\* The frame that started the buffer was the first turn, a second frame
\* joined it without a turn, and the flush of the two was the second turn.
C32_BufferedFrameThenFlush ==
    /\ last.op = "flush"
    /\ Len(last.fragments) = 2
    /\ last.pre.turn_count = 1
    /\ session.turn_count = 2

\* C33: whenever process() returns an action that names a tool, in a direct
\* turn or in the turn of a buffer flush, the processor invokes that tool.
C33_NamedToolIsInvoked ==
    last.processed /\ last.action.call_tool # "" =>
        last.tool = last.action.call_tool

\* C34: a session that has entered SAFETY_EXIT stays there while the call
\* lasts, and the configured post-call run of a session in SAFETY_EXIT has
\* POSTed the emergency alert.
C34_SafetyExitStaysAndAlerts ==
    [][ /\ session.state = "safety_exit" /\ ~ended =>
               session'.state = "safety_exit"
        /\ (/\ session'.state = "safety_exit"
            /\ post_call'.started
            /\ post_call'.configured) =>
               \E i \in 1..Len(post_call'.posts) :
                   post_call'.posts[i].payload = "alert" ]_vars

C36_NoCallbackAfterCreated ==
    last.processed /\ last.pre.callback_created =>
        last.action.call_tool # "create_callback"

\* C37: a turn whose action requests send_sales_lead_alert is never
\* followed by another turn whose action requests it: the alert is requested
\* at most once in a call.
C37_SalesLeadAlertOnce ==
    [][(last' # last /\ last'.action.call_tool = "send_sales_lead_alert")
          => last.action.call_tool # "send_sales_lead_alert"]_vars

\* C38: on a turn that brings the session into CALLBACK and speaks the canned
\* callback script, the action requests create_callback, or a request was
\* made earlier in the call (it created the callback or counted an attempt).
C38_CallbackPromiseIsRequested ==
    (/\ last.op = "transcription"
     /\ last.processed
     /\ last.pre.state # "callback"
     /\ last.post_state = "callback"
     /\ Pushes(last.frames, "TTSSpeakFrame:canned") > 0)
        => \/ last.action.call_tool = "create_callback"
           \/ last.pre.callback_created
           \/ last.pre.callback_attempts > 0

\* C39: a turn requests book_service only from PRE_CONFIRM, on a session
\* that has not attempted a booking, and leaves caller_confirmed and
\* booking_attempted true; booking_attempted never goes back to false, so
\* a call requests book_service at most once.
C39_BookOnceAfterConfirmation ==
    [][ /\ session.booking_attempted => session'.booking_attempted
        /\ (last' # last /\ last'.action.call_tool = "book_service") =>
               /\ last'.pre.state = "pre_confirm"
               /\ ~session.booking_attempted
               /\ session'.booking_attempted
               /\ session'.caller_confirmed ]_vars

\* C39 witness: book_service was requested and failed, and the caller has
\* spoken again in BOOKING_FAILED.
C39_SpokeAgainAfterFailedBooking ==
    /\ session.booking_attempted
    /\ session.caller_confirmed
    /\ ~session.booking_confirmed
    /\ last.processed
    /\ last.pre.state = "booking_failed"

\* C40: a session with booking_attempted true holds a five-digit ZIP that
\* starts with 787.
C40_BookingOnlyInServiceArea ==
    session.booking_attempted =>
        /\ Len(session.zip_code) = 5
        /\ SubSeq(session.zip_code, 1, 3) = <<7, 8, 7>>

\* C40 witness: a booking attempted for a caller whose record had no ZIP and
\* who spoke an in-area ZIP in SERVICE_AREA.
C40_BookedOnSpokenZip ==
    /\ session.booking_attempted
    /\ session.zip_code = <<7, 8, 7, 0, 1>>

====
